---------------------------- MODULE Spec2Model ----------------------------
(***************************************************************************)
(* A model of the headless roulette engine: the math helpers, the seeded   *)
(* generator (mulberry32), planning (planSpin), the animation reducer      *)
(* (beginSpin / step) and the imperative engine (createRouletteEngine).    *)
(*                                                                         *)
(* Numbers.  JavaScript numbers are modelled exactly, on grids:            *)
(*   - an angle is an integer count of 1/AngleScale degree;                *)
(*   - a time is an integer count of milliseconds;                         *)
(*   - a 32-bit word is a pair <<hi, lo>> of 16-bit halves, and a draw of  *)
(*     a generator is the word u standing for the float u / 2^32;          *)
(*   - jitterFactor and targetIndex are fractions [n, d] in lowest terms;  *)
(*   - an optional value is <<>> (undefined / null) or <<v>>.              *)
(* Every action is guarded so that its arithmetic is exact on these grids  *)
(* (rounding of IEEE doubles is not modelled).                             *)
(***************************************************************************)
EXTENDS Integers, Sequences, FiniteSets, TLC

(***************************************************************************)
(* Bounds of the model.                                                    *)
(***************************************************************************)
\* successful spins in one behaviour
MaxSpins == 2

\* calls of setState and setSegments in one behaviour
MaxOverwrites == 1

(***************************************************************************)
(* Optional values.                                                        *)
(***************************************************************************)
Undefined == <<>>

Some(v) == <<v>>

IsDefined(x) == x # <<>>

\* a ?? b
Coalesce(a, b) == IF a # <<>> THEN a[1] ELSE b

Min(a, b) == IF a <= b THEN a ELSE b

Max(a, b) == IF a >= b THEN a ELSE b

Abs(a) == IF a < 0 THEN -a ELSE a

\* JavaScript's % : the remainder has the sign of the dividend
JsRem(a, b) == IF a >= 0 THEN a % b ELSE -((-a) % b)

\* Euclid's algorithm, as a function so that each remainder is computed once
Gcd(a, b) ==
    LET gcd[x \in Nat, y \in Nat] == IF y = 0 THEN x ELSE gcd[y, x % y]
    IN  gcd[a, b]

RECURSIVE Pow(_, _)
Pow(b, e) == IF e = 0 THEN 1 ELSE b * Pow(b, e - 1)

(***************************************************************************)
(* 32-bit words as pairs of 16-bit halves (an Int of the checker is 32-bit *)
(* signed, so a word does not fit in one).                                 *)
(***************************************************************************)
Half == Pow(2, 16)

RECURSIVE XorBits(_, _, _)
XorBits(a, b, n) ==
    IF n = 0 THEN 0
    ELSE (((a % 2) + (b % 2)) % 2) + 2 * XorBits(a \div 2, b \div 2, n - 1)

RECURSIVE OrBits(_, _, _)
OrBits(a, b, n) ==
    IF n = 0 THEN 0
    ELSE (IF a % 2 = 1 \/ b % 2 = 1 THEN 1 ELSE 0)
         + 2 * OrBits(a \div 2, b \div 2, n - 1)

\* a ^ b
Xor32(a, b) == <<XorBits(a[1], b[1], 16), XorBits(a[2], b[2], 16)>>

\* a | b
Or32(a, b) == <<OrBits(a[1], b[1], 16), OrBits(a[2], b[2], 16)>>

\* (a + b) mod 2^32
Add32(a, b) ==
    LET lo == a[2] + b[2]
    IN  <<(a[1] + b[1] + (lo \div Half)) % Half, lo % Half>>

\* a >>> k, 0 < k < 32
Shr32(a, k) ==
    IF k >= 16 THEN <<0, a[1] \div Pow(2, k - 16)>>
    ELSE <<a[1] \div Pow(2, k),
           (a[2] \div Pow(2, k)) + (a[1] % Pow(2, k)) * Pow(2, 16 - k)>>

\* (a << k) mod 2^32, 0 < k < 16
Shl32(a, k) ==
    <<((a[1] % Pow(2, 16 - k)) * Pow(2, k)) + (a[2] \div Pow(2, 16 - k)),
      (a[2] % Pow(2, 16 - k)) * Pow(2, k)>>

\* (x * y) mod 2^16 for 16-bit x, y, by bytes of y
MulMod16(x, y) == ((x * (y % 256)) + ((x * (y \div 256)) % 256) * 256) % Half

\* the word of the low product s (below 2^25) of the low halves, the carry
\* p1 \div 256 and the cross products
ImulWord(s, p1, cross) ==
    <<((s \div Half) + (p1 \div 256) + cross) % Half, s % Half>>

\* Math.imul(a, b): the low 32 bits of the product
ImulParts(a, b, p0, p1) ==
    ImulWord(p0 + (p1 % 256) * 256, p1,
             MulMod16(a[1], b[2]) + MulMod16(a[2], b[1]))

Imul(a, b) == ImulParts(a, b, a[2] * (b[2] % 256), a[2] * (b[2] \div 256))

(***************************************************************************)
(* rng.ts                                                                  *)
(***************************************************************************)
\* a seed is a number (type "number", its value num) or a string (type
\* "string", its char codes chars)
NumberSeed(n) == [type |-> "number", num |-> n, chars |-> <<>>]

StringSeed(cs) == [type |-> "string", num |-> 0, chars |-> cs]

\* (h << 13) | (h >>> 19)
Rotl13(h) == Or32(Shl32(h, 13), Shr32(h, 19))

RECURSIVE HashLoop(_, _, _)
HashLoop(h, seed, i) ==
    IF i > Len(seed) THEN h
    ELSE HashLoop(Rotl13(Imul(Xor32(h, <<0, seed[i]>>), <<52382, 11601>>)),
                  seed, i + 1)

\* hashStringSeed: 1779033703 = <<27145, 58983>>, 3432918353 = <<52382, 11601>>
hashStringSeed(seed) == HashLoop(Xor32(<<27145, 58983>>, <<0, Len(seed)>>), seed, 1)

\* the closure variable a of mulberry32 after one more call (0x6d2b79f5)
MulberryAdvance(a) == Add32(a, <<27947, 31221>>)

\* t = Math.imul(t ^ (t >>> 15), t | 1)
MulberryFirst(t) == Imul(Xor32(t, Shr32(t, 15)), Or32(t, <<0, 1>>))

\* t ^= t + Math.imul(t ^ (t >>> 7), t | 61)
MulberrySecond(t) ==
    Xor32(t, Add32(t, Imul(Xor32(t, Shr32(t, 7)), Or32(t, <<0, 61>>))))

\* (t ^ (t >>> 14)) >>> 0
MulberryOut(t) == Xor32(t, Shr32(t, 14))

\* the word mulberry32 returns (before the division by 4294967296) once a
\* has been advanced
MulberryMix(a) == MulberryOut(MulberrySecond(MulberryFirst(a)))

\* createSeededRng: the initial closure variable a
createSeededRng(seed) ==
    IF seed.type = "number" THEN <<(seed.num \div Half) % Half, seed.num % Half>>
    ELSE hashStringSeed(seed.chars)

\* the seeds of the model's configurations
Seeds == { NumberSeed(42), NumberSeed(1), StringSeed(<<115, 101, 101, 100>>) }

\* the most calls of rng() one planSpin makes: rotations, selection, jitter
DrawsPerPlan == 3

\* createSeededRng and MulberryMix tabulated for Seeds, so that the bit
\* arithmetic is computed once
SeedTable == [seed \in Seeds |-> createSeededRng(seed)]

RECURSIVE AdvanceN(_, _)
AdvanceN(a, n) == IF n = 0 THEN a ELSE AdvanceN(MulberryAdvance(a), n - 1)

MixTable ==
    [a \in { AdvanceN(SeedTable[seed], n) : seed \in Seeds, n \in 1..DrawsPerPlan }
        |-> MulberryMix(a)]

\* createSeededRng(seed), from the table when it is there
SeededClosure(seed) ==
    IF seed \in DOMAIN SeedTable THEN SeedTable[seed] ELSE createSeededRng(seed)

\* MulberryMix(a), from the table when it is there
MulberryDraw(a) ==
    IF a \in DOMAIN MixTable THEN MixTable[a] ELSE MulberryMix(a)

(***************************************************************************)
(* math.ts                                                                 *)
(***************************************************************************)
\* angle units per degree: every spin that is re-planned from a half-way
\* angle of the cubic easing divides the grid by 8
AngleScale == Pow(8, MaxSpins)

\* Degrees in a full rotation.
FULL_ROTATION == 360

\* FULL_ROTATION in angle units
FullTurn == FULL_ROTATION * AngleScale

\* an angle given in whole degrees
Deg(d) == d * AngleScale

clamp(value, min, max) == Min(max, Max(min, value))

normalizeAngle(angle) ==
    LET normalized == JsRem(angle, FullTurn)
    IN  IF normalized < 0 THEN normalized + FullTurn ELSE normalized

\* a fraction n / d, d > 0, in lowest terms
Frac(n, d) == LET g == Gcd(Abs(n), d) IN [n |-> n \div g, d |-> d \div g]

\* clamp(f, 0, 1) of a fraction
clampUnit(f) == IF f.n < 0 THEN Frac(0, 1) ELSE IF f.n > f.d THEN Frac(1, 1) ELSE f

\* whether lerp(start, end, t) falls on the angle grid
lerpExact(start, end, t) == ((end - start) * t.n) % t.d = 0

\* an interpolation that runs from the end back to the start
lerp_FromEnd(start, end, t) == end - (((end - start) * t.n) \div t.d)

\* lerp: start + (end - start) * t
lerp(start, end, t) == start + (((end - start) * t.n) \div t.d)

\* easeOutCubic: 1 - (1 - t)^3
easeOutCubic(t) == Frac(Pow(t.d, 3) - Pow(t.d - t.n, 3), Pow(t.d, 3))

(***************************************************************************)
(* state.ts: defaults                                                      *)
(***************************************************************************)
DEFAULT_DURATION_MS == 6000

DEFAULT_MIN_ROTATIONS == 3

DEFAULT_MAX_ROTATIONS == 6

DEFAULT_POINTER_ANGLE == 0

\* 0.3
DEFAULT_JITTER_FACTOR == Frac(3, 10)

DEFAULT_ROTATION_DIRECTION == 1

(***************************************************************************)
(* Generators.  A generator is [kind, id, a, calls]: kind "seeded" is a    *)
(* mulberry32 closure with closure variable a; kind "random" is            *)
(* Math.random or the caller's config.rng, whose draws are the             *)
(* environment's (env[k] answers its k-th call).  calls counts the calls   *)
(* made on it; id tells one closure from another.                          *)
(***************************************************************************)
\* a resolveRng that ignores the seed
resolveRng_IgnoresSeed(config) ==
    IF IsDefined(config.rng)
    THEN [kind |-> "random", id |-> "config.rng", a |-> <<0, 0>>, calls |-> 0]
    ELSE [kind |-> "random", id |-> "Math.random", a |-> <<0, 0>>, calls |-> 0]

resolveRng(config) ==
    IF IsDefined(config.rng)
    THEN [kind |-> "random", id |-> "config.rng", a |-> <<0, 0>>, calls |-> 0]
    ELSE IF IsDefined(config.seed)
         THEN [kind |-> "seeded", id |-> "fresh closure",
               a |-> SeededClosure(config.seed[1]), calls |-> 0]
         ELSE [kind |-> "random", id |-> "Math.random", a |-> <<0, 0>>, calls |-> 0]

\* the generator after one call
RngAfter(rng) ==
    [rng EXCEPT !.a = IF rng.kind = "seeded" THEN MulberryAdvance(rng.a) ELSE rng.a,
                !.calls = rng.calls + 1]

\* what the next call of the generator returns: the word u of u / 2^32
RngValue(rng, env) ==
    IF rng.kind = "seeded" THEN MulberryDraw(MulberryAdvance(rng.a))
    ELSE env[rng.calls + 1]

\* floor(r * m) for the draw r = u / 2^32 and a small integer m >= 0
FloorMul(u, m) == ((u[1] * m) + ((u[2] * m) \div Half)) \div Half

\* r * total <= c for the draw r = u / 2^32 and small integers total, c
DrawTimesLeq(u, total, c) ==
    LET hiPart == (u[1] * total) + ((u[2] * total) \div Half)
        loPart == (u[2] * total) % Half
    IN  IF c < 0 THEN FALSE
        ELSE hiPart < c * Half \/ (hiPart = c * Half /\ loPart = 0)

(***************************************************************************)
(* state.ts: selection and planning                                        *)
(***************************************************************************)
resolveSegments(state, config) ==
    IF Len(state.segments) > 0 THEN state.segments ELSE config.segments

\* in angle units
resolveSegmentAngle(segmentCount) == FullTurn \div segmentCount

\* a pick from one integer more than the range holds
pickRandomIntInclusive_PastMax(min, max, u) ==
    LET low == Min(min, max)
        high == Max(min, max)
    IN  FloorMul(u, high - low + 2) + low

pickRandomIntInclusive(min, max, u) ==
    LET low == Min(min, max)
        high == Max(min, max)
    IN  FloorMul(u, high - low + 1) + low

\* segment.weight ?? 1, clamped to >= 0
Weights(segments) ==
    [i \in 1..Len(segments) |-> Max(0, Coalesce(segments[i].weight, 1))]

RECURSIVE SumTo(_, _)
SumTo(weights, i) == IF i = 0 THEN 0 ELSE weights[i] + SumTo(weights, i - 1)

\* the weighted walk: the first (0-based) index i >= from at which the
\* running threshold r * total - (w[0] + ... + w[i]) is <= 0, else the last
RECURSIVE WeightedWalk(_, _, _, _)
WeightedWalk(weights, total, u, i) ==
    IF i > Len(weights) THEN Len(weights) - 1
    ELSE IF DrawTimesLeq(u, total, SumTo(weights, i)) THEN i - 1
         ELSE WeightedWalk(weights, total, u, i + 1)

\* a selectWeightedIndex without the uniform fallback
selectWeightedIndex_AlwaysWalks(segments, u) ==
    IF Len(segments) = 0 THEN -1
    ELSE WeightedWalk(Weights(segments),
                      SumTo(Weights(segments), Len(segments)), u, 1)

\* selectWeightedIndex, given the draw u its one call of rng() returns
selectWeightedIndex(segments, u) ==
    IF Len(segments) = 0 THEN -1
    ELSE LET weights == Weights(segments)
             totalWeight == SumTo(weights, Len(weights))
         IN  IF totalWeight = 0 THEN FloorMul(u, Len(segments))
             ELSE WeightedWalk(weights, totalWeight, u, 1)

\* resolveWinningIndex without a targetIndex: selected is what
\* selectWeightedIndex returns
WinnerSelected(selected, rng) ==
    IF selected < 0
    THEN [error |-> "Cannot select a winning index without segments.",
          index |-> 0, rng |-> RngAfter(rng)]
    ELSE [error |-> "none", index |-> selected, rng |-> RngAfter(rng)]

\* resolveWinningIndex with the targetIndex given
WinnerForced(segments, targetIndex, rng) ==
    IF targetIndex.d # 1
    THEN [error |-> "targetIndex must be an integer.", index |-> 0, rng |-> rng]
    ELSE IF targetIndex.n < 0 \/ targetIndex.n >= Len(segments)
         THEN [error |-> "targetIndex is out of bounds for segments.",
               index |-> 0, rng |-> rng]
         ELSE [error |-> "none", index |-> targetIndex.n, rng |-> rng]

\* resolveWinningIndex: [error, index, rng], rng the generator afterwards
resolveWinningIndex(segments, options, rng, env) ==
    IF IsDefined(options.targetIndex)
    THEN WinnerForced(segments, options.targetIndex[1], rng)
    ELSE WinnerSelected(selectWeightedIndex(segments, RngValue(rng, env)), rng)

\* an index taken from the alignment angle minus the pointer angle
indexFromAlignmentAngle_Swapped(alignmentAngle, pointerAngle, segmentAngle, segmentCount) ==
    JsRem(((2 * normalizeAngle(alignmentAngle - pointerAngle)) + segmentAngle)
              \div (2 * segmentAngle),
          segmentCount)

\* Math.round(normalized / segmentAngle) % segmentCount
indexFromAlignmentAngle(alignmentAngle, pointerAngle, segmentAngle, segmentCount) ==
    LET normalized == normalizeAngle(pointerAngle - alignmentAngle)
        rounded == JsRem(((2 * normalized) + segmentAngle) \div (2 * segmentAngle),
                         segmentCount)
    IN  IF rounded < 0 THEN rounded + segmentCount ELSE rounded

\* (r - 0.5) as a fraction, for the draw r = u / 2^32 with u[2] = 0
DrawMinusHalf(u) == Frac(u[1] - (Half \div 2), Half)

\* whether (rng() - 0.5) * segmentAngle * jitterFactor falls on the angle grid
JitterExact(u, segmentAngle, jitterFactor) ==
    /\ u[2] = 0
    /\ (segmentAngle * jitterFactor.n) % DrawMinusHalf(u).d = 0
    /\ (((segmentAngle * jitterFactor.n) \div DrawMinusHalf(u).d) * DrawMinusHalf(u).n)
          % jitterFactor.d = 0

\* a jitter of (rng() - 0.5) * 2 * segmentAngle * jitterFactor
Jitter_Doubled(u, segmentAngle, jitterFactor) ==
    2 * ((((segmentAngle * jitterFactor.n) \div DrawMinusHalf(u).d) * DrawMinusHalf(u).n)
            \div jitterFactor.d)

\* (rng() - 0.5) * segmentAngle * jitterFactor
Jitter(u, segmentAngle, jitterFactor) ==
    (((segmentAngle * jitterFactor.n) \div DrawMinusHalf(u).d) * DrawMinusHalf(u).n)
        \div jitterFactor.d

\* a delta that makes the full turns and ignores the alignment
PlanDelta_TurnsOnly(rotationDirection, baseAngle, currentNormalized, rotations) ==
    IF rotationDirection = 1 THEN rotations * FullTurn ELSE -(rotations * FullTurn)

\* a clockwise delta whose remainder is taken without adding a full turn
PlanDelta_NoWrap(rotationDirection, baseAngle, currentNormalized, rotations) ==
    IF rotationDirection = 1
    THEN JsRem(baseAngle - currentNormalized, FullTurn) + (rotations * FullTurn)
    ELSE (-JsRem(currentNormalized - baseAngle + FullTurn, FullTurn))
         - (rotations * FullTurn)

\* a counter-clockwise delta that adds the full turns
PlanDelta_ReverseAddsTurns(rotationDirection, baseAngle, currentNormalized, rotations) ==
    IF rotationDirection = 1
    THEN JsRem(baseAngle - currentNormalized + FullTurn, FullTurn)
         + (rotations * FullTurn)
    ELSE (-JsRem(currentNormalized - baseAngle + FullTurn, FullTurn))
         + (rotations * FullTurn)

\* the rotation from the current angle to the base alignment, with the full turns
PlanDelta(rotationDirection, baseAngle, currentNormalized, rotations) ==
    IF rotationDirection = 1
    THEN JsRem(baseAngle - currentNormalized + FullTurn, FullTurn)
         + (rotations * FullTurn)
    ELSE (-JsRem(currentNormalized - baseAngle + FullTurn, FullTurn))
         - (rotations * FullTurn)

\* a planSpin that draws from the generator the engine holds
PlanRng_UsesEngineRng(config, engineRng) == engineRng

\* the generator planSpin draws from: it resolves one from the config on every
\* call (state.ts, `const rng = resolveRng(config)`); engineRng, the generator
\* the engine passes as a fourth argument, is not a parameter of planSpin
PlanRng(config, engineRng) == resolveRng(config)

\* the result of a planSpin that throws msg
PlanFailed(msg, rngStart, rng) ==
    [error |-> msg,
     plan |-> [winningIndex |-> 0, targetAngle |-> 0, durationMs |-> 0,
               rotations |-> 0],
     rngStart |-> rngStart, rng |-> rng, exact |-> TRUE, baseAngle |-> 0]

\* the plan, once the winner and the base angle are known
PlanFor(state, config, options, rotations, winningIndex, baseAngle) ==
    [winningIndex |-> winningIndex,
     targetAngle |->
         state.angle
         + PlanDelta(Coalesce(config.rotationDirection, DEFAULT_ROTATION_DIRECTION),
                     normalizeAngle(baseAngle), normalizeAngle(state.angle),
                     rotations),
     durationMs |->
         Coalesce(options.durationMs,
                  Coalesce(config.durationMs, DEFAULT_DURATION_MS)),
     rotations |-> rotations]

\* planSpin with a targetAngle: no winner is resolved, no jitter is drawn
PlanToAngle(state, config, options, segmentCount, rng, rng1, rotations) ==
    [error |-> "none",
     plan |-> PlanFor(state, config, options, rotations,
                      indexFromAlignmentAngle(
                          options.targetAngle[1],
                          Coalesce(config.pointerAngle, Deg(DEFAULT_POINTER_ANGLE)),
                          resolveSegmentAngle(segmentCount), segmentCount),
                      options.targetAngle[1]),
     rngStart |-> rng, rng |-> rng1, exact |-> TRUE,
     baseAngle |-> normalizeAngle(options.targetAngle[1])]

\* planSpin without a targetAngle, once the winner won is resolved; u is what
\* the next call of the generator returns
PlanToWinner(state, config, options, segmentAngle, jitterFactor, rng, rotations, won, u) ==
    IF won.error # "none" THEN PlanFailed(won.error, rng, won.rng)
    ELSE IF jitterFactor.n > 0
    THEN [error |-> "none",
          plan |-> PlanFor(state, config, options, rotations, won.index,
                           (Coalesce(config.pointerAngle, Deg(DEFAULT_POINTER_ANGLE))
                            - (segmentAngle * won.index))
                           + (IF JitterExact(u, segmentAngle, jitterFactor)
                              THEN Jitter(u, segmentAngle, jitterFactor) ELSE 0)),
          rngStart |-> rng, rng |-> RngAfter(won.rng),
          exact |-> JitterExact(u, segmentAngle, jitterFactor),
          baseAngle |->
              normalizeAngle(
                  (Coalesce(config.pointerAngle, Deg(DEFAULT_POINTER_ANGLE))
                   - (segmentAngle * won.index))
                  + (IF JitterExact(u, segmentAngle, jitterFactor)
                     THEN Jitter(u, segmentAngle, jitterFactor) ELSE 0))]
    ELSE [error |-> "none",
          plan |-> PlanFor(state, config, options, rotations, won.index,
                           Coalesce(config.pointerAngle, Deg(DEFAULT_POINTER_ANGLE))
                           - (segmentAngle * won.index)),
          rngStart |-> rng, rng |-> won.rng, exact |-> TRUE,
          baseAngle |->
              normalizeAngle(Coalesce(config.pointerAngle, Deg(DEFAULT_POINTER_ANGLE))
                             - (segmentAngle * won.index))]

\* the jitter draw, when planSpin makes it
JitterDraw(jitterFactor, won, env) ==
    IF won.error = "none" /\ jitterFactor.n > 0 THEN RngValue(won.rng, env)
    ELSE <<0, 0>>

\* planSpin once the rotations are drawn; rng1 is the generator afterwards
PlanWith(state, config, options, segments, rng, rng1, rotations, won, env) ==
    IF IsDefined(options.targetAngle)
    THEN PlanToAngle(state, config, options, Len(segments), rng, rng1, rotations)
    ELSE PlanToWinner(state, config, options, resolveSegmentAngle(Len(segments)),
                      Coalesce(config.jitterFactor, DEFAULT_JITTER_FACTOR),
                      rng, rotations, won,
                      JitterDraw(Coalesce(config.jitterFactor, DEFAULT_JITTER_FACTOR),
                                 won, env))

\* planSpin with the generator rng it draws from
PlanFrom(state, config, options, segments, rng, env) ==
    PlanWith(state, config, options, segments, rng, RngAfter(rng),
             pickRandomIntInclusive(
                 Coalesce(options.minRotations,
                          Coalesce(config.minRotations, DEFAULT_MIN_ROTATIONS)),
                 Coalesce(options.maxRotations,
                          Coalesce(config.maxRotations, DEFAULT_MAX_ROTATIONS)),
                 RngValue(rng, env)),
             resolveWinningIndex(segments, options, RngAfter(rng), env),
             env)

\* planSpin: [error, plan, rngStart, rng, exact, baseAngle].  error is "none"
\* or the message thrown; rngStart is the generator planSpin draws from and
\* rng the same generator after the calls made on it; exact says whether the
\* jitter falls on the angle grid (the plan is meaningful only then);
\* baseAngle is the local of that name once it is normalized.
planSpin(state, config, options, engineRng, env) ==
    IF Len(resolveSegments(state, config)) = 0
    THEN PlanFailed("Roulette requires at least one segment.", engineRng, engineRng)
    ELSE PlanFrom(state, config, options, resolveSegments(state, config),
                  PlanRng(config, engineRng), env)

\* createInitialState
createInitialState(config) ==
    LET initialAngle == Coalesce(config.startAngle, 0)
    IN  [phase |-> "idle",
         angle |-> initialAngle,
         elapsedMs |-> 0,
         durationMs |-> Coalesce(config.durationMs, DEFAULT_DURATION_MS),
         spinStartAngle |-> initialAngle,
         targetAngle |-> Undefined,
         winningIndex |-> Undefined,
         segments |-> config.segments]

\* a beginSpin that keeps the elapsed time
beginSpin_KeepsElapsed(state, plan) ==
    [state EXCEPT !.phase = "spinning",
                  !.durationMs = plan.durationMs,
                  !.spinStartAngle = state.angle,
                  !.targetAngle = Some(plan.targetAngle),
                  !.winningIndex = Some(plan.winningIndex)]

\* a beginSpin that keeps the winner of a spin under way
beginSpin_KeepsWinner(state, plan) ==
    [state EXCEPT !.phase = "spinning",
                  !.elapsedMs = 0,
                  !.durationMs = plan.durationMs,
                  !.spinStartAngle = state.angle,
                  !.targetAngle = Some(plan.targetAngle),
                  !.winningIndex = IF state.phase = "spinning"
                                   THEN state.winningIndex
                                   ELSE Some(plan.winningIndex)]

\* a beginSpin that keeps the start angle of a spin under way
beginSpin_KeepsStartAngle(state, plan) ==
    [state EXCEPT !.phase = "spinning",
                  !.elapsedMs = 0,
                  !.durationMs = plan.durationMs,
                  !.spinStartAngle = IF state.phase = "spinning"
                                     THEN state.spinStartAngle ELSE state.angle,
                  !.targetAngle = Some(plan.targetAngle),
                  !.winningIndex = Some(plan.winningIndex)]

\* beginSpin
beginSpin(state, plan) ==
    [state EXCEPT !.phase = "spinning",
                  !.elapsedMs = 0,
                  !.durationMs = plan.durationMs,
                  !.spinStartAngle = state.angle,
                  !.targetAngle = Some(plan.targetAngle),
                  !.winningIndex = Some(plan.winningIndex)]

\* an easing the caller may pass as config.easing: the bounce
\* t => n1 * (t - c)^2 + o with n1 = 7.5625, d1 = 2.75 and, by the range of
\* t, (c, o) = (0, 0) below 1 / d1, (1.5 / d1, 0.75) below 2 / d1,
\* (2.25 / d1, 0.9375) below 2.5 / d1 and (2.625 / d1, 0.984375) above; it
\* reaches 1 at t = 4 / 11 and falls back to 0.75 at t = 6 / 11
easeOutBounce(t) ==
    IF 11 * t.n < 4 * t.d THEN Frac(Pow(22 * t.n, 2), 64 * Pow(t.d, 2))
    ELSE IF 11 * t.n < 8 * t.d
    THEN Frac(Pow((22 * t.n) - (12 * t.d), 2) + (48 * Pow(t.d, 2)), 64 * Pow(t.d, 2))
    ELSE IF 11 * t.n < 10 * t.d
    THEN Frac(Pow((22 * t.n) - (18 * t.d), 2) + (60 * Pow(t.d, 2)), 64 * Pow(t.d, 2))
    ELSE Frac(Pow((22 * t.n) - (21 * t.d), 2) + (63 * Pow(t.d, 2)), 64 * Pow(t.d, 2))

\* config.easing ?? easeOutCubic, applied to t; an easing the caller passes
\* is the identity ("linear") or the bounce
Easing(config, t) ==
    IF ~IsDefined(config.easing) THEN easeOutCubic(t)
    ELSE IF config.easing[1] = "easeOutBounce" THEN easeOutBounce(t)
    ELSE t

\* an elapsed time clamped one millisecond above the duration
StepElapsed_Overshoots(state, deltaMs) ==
    clamp(state.elapsedMs + Max(0, deltaMs), 0, Max(0, state.durationMs) + 1)

\* an elapsed time that adds a negative deltaMs as it is
StepElapsed_AddsDelta(state, deltaMs) ==
    clamp(state.elapsedMs + deltaMs, 0, Max(0, state.durationMs))

\* the progress t and the new elapsed time of a step
StepElapsed(state, deltaMs) ==
    clamp(state.elapsedMs + Max(0, deltaMs), 0, Max(0, state.durationMs))

\* a progress that is 0 / 1 when the duration is 0
StepProgress_ZeroStalls(state, deltaMs) ==
    IF Max(0, state.durationMs) = 0 THEN Frac(0, 1)
    ELSE Frac(StepElapsed(state, deltaMs), Max(0, state.durationMs))

StepProgress(state, deltaMs) ==
    IF Max(0, state.durationMs) = 0 THEN Frac(1, 1)
    ELSE Frac(StepElapsed(state, deltaMs), Max(0, state.durationMs))

\* whether the angle step computes falls on the angle grid
StepExact(state, config, deltaMs) ==
    (state.phase = "spinning" /\ IsDefined(state.targetAngle))
       => /\ StepProgress(state, deltaMs).d <= AngleScale
          /\ lerpExact(state.spinStartAngle, state.targetAngle[1],
                       clampUnit(Easing(config, StepProgress(state, deltaMs))))

\* a step that stops only past the end of the duration
Stepped_StopsPastEnd(state, config, elapsed, t) ==
    [state EXCEPT !.angle = lerp(state.spinStartAngle, state.targetAngle[1],
                                 clampUnit(Easing(config, t))),
                  !.elapsedMs = elapsed,
                  !.phase = IF t.n > t.d THEN "stopped" ELSE "spinning"]

\* the state step returns for the progress t
Stepped(state, config, elapsed, t) ==
    [state EXCEPT !.angle = lerp(state.spinStartAngle, state.targetAngle[1],
                                 clampUnit(Easing(config, t))),
                  !.elapsedMs = elapsed,
                  !.phase = IF t.n >= t.d THEN "stopped" ELSE "spinning"]

\* a step that counts the time of a snapshot that is not spinning
step_CountsIdleTime(state, config, deltaMs) ==
    IF state.phase # "spinning" \/ ~IsDefined(state.targetAngle)
    THEN [state EXCEPT !.elapsedMs = state.elapsedMs + Max(0, deltaMs)]
    ELSE Stepped(state, config, StepElapsed(state, deltaMs),
                 StepProgress(state, deltaMs))

\* step
step(state, config, deltaMs) ==
    IF state.phase # "spinning" \/ ~IsDefined(state.targetAngle) THEN state
    ELSE Stepped(state, config, StepElapsed(state, deltaMs),
                 StepProgress(state, deltaMs))

(***************************************************************************)
(* engine.ts: the operations of createRouletteEngine as functions of the   *)
(* engine's closure variables.  An emitted event is [type, state, to]: to  *)
(* is the set of listeners emit() called.                                  *)
(***************************************************************************)
NoPlan == [winningIndex |-> 0, targetAngle |-> 0, durationMs |-> 0, rotations |-> 0]

\* emit(type, snapshot)
emit(listeners, type, snapshot) == [type |-> type, state |-> snapshot, to |-> listeners]

\* the generator as the closure the engine holds
EngineClosure(resolved) ==
    IF resolved.kind = "seeded" THEN [resolved EXCEPT !.id = "engine closure"]
    ELSE resolved

\* `const rng = resolveRng(config)` of createRouletteEngine: the engine's own closure
EngineRng(config) == EngineClosure(resolveRng(config))

\* the engine's closure after a planSpin that drew from planRng
EngineRngAfter(rng, planRng) ==
    IF planRng.kind = "seeded" /\ planRng.id = rng.id THEN planRng ELSE rng

\* what spin does on a disposed engine
SpinDisposed(state, rng) ==
    [threw |-> "Engine is disposed.", plan |-> NoPlan, state |-> state,
     rng |-> rng, emitted |-> <<>>, planned |-> FALSE,
     planRngStart |-> rng, planRng |-> rng, exact |-> TRUE]

\* what spin does when planSpin has thrown: the engine's snapshot is held
SpinThrew(held, rng, res) ==
    [threw |-> res.error, plan |-> NoPlan, state |-> held,
     rng |-> EngineRngAfter(rng, res.rng), emitted |-> <<>>, planned |-> TRUE,
     planRngStart |-> res.rngStart, planRng |-> res.rng, exact |-> TRUE]

\* what spin does with the plan: begun is beginSpin(state, plan)
SpinBegun(begun, listeners, rng, res) ==
    [threw |-> "none", plan |-> res.plan, state |-> begun,
     rng |-> EngineRngAfter(rng, res.rng),
     emitted |-> <<emit(listeners, "spin:start", begun)>>, planned |-> TRUE,
     planRngStart |-> res.rngStart, planRng |-> res.rng, exact |-> res.exact]

\* spin, given the result res of planSpin
SpinPlanned(state, listeners, rng, res) ==
    IF res.error # "none" THEN SpinThrew(state, rng, res)
    ELSE SpinBegun(beginSpin(state, res.plan), listeners, rng, res)

\* a spin that enters the spinning phase before it plans
EngineSpin_BeginsBeforePlanning(state, config, listeners, disposed, rng, options, env) ==
    IF disposed THEN SpinDisposed(state, rng)
    ELSE SpinPlanned([state EXCEPT !.phase = "spinning"], listeners, rng,
                     planSpin(state, config, options, rng, env))

\* spin(options): [threw, plan, state, rng, emitted, planned, planRngStart,
\* planRng, exact]; planned says whether planSpin ran, planRngStart and
\* planRng are the generator it drew from, before and after
EngineSpin(state, config, listeners, disposed, rng, options, env) ==
    IF disposed THEN SpinDisposed(state, rng)
    ELSE SpinPlanned(state, listeners, rng,
                     planSpin(state, config, options, rng, env))

\* tick events that do not look at the phase before the step
TickEvents_IgnoresPrevPhase(listeners, prevPhase, state) ==
    (IF state.phase = "spinning" THEN <<emit(listeners, "spin:tick", state)>> ELSE <<>>)
    \o (IF state.phase = "stopped"
        THEN <<emit(listeners, "spin:complete", state)>> ELSE <<>>)

\* tick events whose spin:tick looks at the phase before the step
TickEvents_ProgressOnPrevPhase(listeners, prevPhase, state) ==
    (IF prevPhase = "spinning" THEN <<emit(listeners, "spin:tick", state)>> ELSE <<>>)
    \o (IF prevPhase = "spinning" /\ state.phase = "stopped"
        THEN <<emit(listeners, "spin:complete", state)>> ELSE <<>>)

\* the events tick emits once step has run
TickEvents(listeners, prevPhase, state) ==
    (IF state.phase = "spinning" THEN <<emit(listeners, "spin:tick", state)>> ELSE <<>>)
    \o (IF prevPhase = "spinning" /\ state.phase = "stopped"
        THEN <<emit(listeners, "spin:complete", state)>> ELSE <<>>)

\* a tick that stores the angle normalized
Ticked_NormalizesAngle(listeners, prevPhase, stepped) ==
    [state |-> [stepped EXCEPT !.angle = normalizeAngle(stepped.angle)],
     emitted |-> TickEvents(listeners, prevPhase, stepped)]

\* what tick does once step has returned stepped
Ticked(listeners, prevPhase, stepped) ==
    [state |-> stepped, emitted |-> TickEvents(listeners, prevPhase, stepped)]

\* a tick without the disposed check
EngineTick_Unguarded(state, config, listeners, disposed, deltaMs) ==
    Ticked(listeners, state.phase, step(state, config, deltaMs))

\* tick(deltaMs): [state, emitted]; the state is also what tick returns
EngineTick(state, config, listeners, disposed, deltaMs) ==
    IF disposed THEN [state |-> state, emitted |-> <<>>]
    ELSE Ticked(listeners, state.phase, step(state, config, deltaMs))

\* what reset does with the initial snapshot
ResetTo(listeners, initial) ==
    [threw |-> "none", state |-> initial,
     emitted |-> <<emit(listeners, "spin:reset", initial)>>]

\* a reset without the disposed check
EngineReset_Unguarded(state, config, listeners, disposed) ==
    ResetTo(listeners,
            [createInitialState(config) EXCEPT !.segments = config.segments])

\* reset(): [threw, state, emitted]
EngineReset(state, config, listeners, disposed) ==
    IF disposed
    THEN [threw |-> "Engine is disposed.", state |-> state, emitted |-> <<>>]
    ELSE ResetTo(listeners,
                 [createInitialState(config) EXCEPT !.segments = config.segments])

\* a setSegments that puts the snapshot back to idle
EngineSetSegments_Idles(state, config, disposed, segments) ==
    [config |-> [config EXCEPT !.segments = segments],
     state |-> [state EXCEPT !.segments = segments, !.phase = "idle"]]

\* setSegments(segments): [config, state]
EngineSetSegments(state, config, disposed, segments) ==
    [config |-> [config EXCEPT !.segments = segments],
     state |-> [state EXCEPT !.segments = segments]]

\* setState(next): the new state
EngineSetState(state, disposed, next) == next

\* dispose(): [listeners, disposed, emitted]
EngineDispose(state, listeners) ==
    [listeners |-> {}, disposed |-> TRUE, emitted |-> <<>>]

(***************************************************************************)
(* The inputs the model draws from.                                        *)
(***************************************************************************)
Segment(id, weight) == [id |-> id, weight |-> weight]

\* the test suite's segments
SegsABC == <<Segment("a", <<1>>), Segment("b", <<2>>), Segment("c", <<3>>)>>

SegsFour == <<Segment("a", <<>>), Segment("b", <<>>), Segment("c", <<>>),
              Segment("d", <<>>)>>

SegsX == <<Segment("x", <<1>>)>>

\* the test suite's baseConfig, with one rotation and a duration of 2 ms
BaseConfig ==
    [segments |-> SegsABC,
     minRotations |-> <<1>>,
     maxRotations |-> <<1>>,
     rotationDirection |-> <<>>,
     pointerAngle |-> <<>>,
     startAngle |-> <<>>,
     durationMs |-> <<2>>,
     easing |-> <<>>,
     jitterFactor |-> <<Frac(0, 1)>>,
     seed |-> <<>>,
     rng |-> <<>>]

Configs ==
    { BaseConfig,
      [BaseConfig EXCEPT !.seed = <<NumberSeed(42)>>,
                         !.rotationDirection = <<-1>>,
                         !.startAngle = <<Deg(400)>>,
                         !.pointerAngle = <<Deg(90)>>],
      [BaseConfig EXCEPT !.seed = <<StringSeed(<<115, 101, 101, 100>>)>>,
                         !.segments = SegsFour,
                         !.minRotations = <<>>, !.maxRotations = <<>>,
                         !.durationMs = <<>>],
      [BaseConfig EXCEPT !.segments = SegsFour,
                         !.rotationDirection = <<1>>,
                         !.jitterFactor = <<Frac(1, 2)>>],
      [BaseConfig EXCEPT !.easing = <<"linear">>, !.seed = <<NumberSeed(1)>>,
                         !.rng = <<"caller's rng">>, !.durationMs = <<0>>] }

NoOptions ==
    [targetIndex |-> <<>>, targetAngle |-> <<>>, durationMs |-> <<>>,
     minRotations |-> <<>>, maxRotations |-> <<>>]

SpinOptionsSet ==
    { NoOptions,
      [NoOptions EXCEPT !.targetIndex = <<Frac(1, 1)>>],
      [NoOptions EXCEPT !.targetIndex = <<Frac(3, 1)>>],
      [NoOptions EXCEPT !.targetIndex = <<Frac(-1, 1)>>],
      [NoOptions EXCEPT !.targetIndex = <<Frac(3, 2)>>],
      [NoOptions EXCEPT !.targetAngle = <<Deg(90)>>],
      [NoOptions EXCEPT !.targetIndex = <<Frac(2, 1)>>, !.durationMs = <<0>>] }

StopAtIndices == { Frac(1, 1) }

Deltas == { -1, 0, 1, 7000 }

\* the draws Math.random or the caller's rng may answer: 0, 0.5 and the
\* largest float below 1
RandomDraws == { <<0, 0>>, <<Half \div 2, 0>>, <<Half - 1, Half - 1>> }

\* the answers of a generator that is never asked
NoEnv == <<>>

\* the answers of the environment's generator to the n calls of one planSpin
Envs(kind, n) == IF kind = "random" THEN [1..n -> RandomDraws] ELSE {NoEnv}

ListenerIds == { "l1", "l2" }

SegmentLists == { <<>>, SegsX }

\* the snapshots setState is called with
SetStateInputs(state) ==
    { [state EXCEPT !.angle = Deg(123), !.phase = "stopped"] }

(***************************************************************************)
(* The engine.                                                             *)
(*   config, state, listeners, disposed, rng: the closure variables of     *)
(*       createRouletteEngine                                              *)
(*   last: the last call, what it returned or threw and what it emitted    *)
(*   hist: history of the current spin and of dispose; controlled is the   *)
(*       snapshot controlled mode (planSpin, beginSpin, step) computes     *)
(*       for the current spin from the same inputs; earlier is the plan of *)
(*       the spin that the current spin overwrote while it was under way,  *)
(*       and the number of spin:complete events that spin had produced     *)
(*   twin: a second engine created with the same configuration and given   *)
(*       the same spin and tick calls                                      *)
(*   caller: the configuration object the caller passed to                 *)
(*       createRouletteEngine and still holds; shared says whether the     *)
(*       engine's config.segments is the caller's array (the copy          *)
(*       `{ ...initialConfig }` is shallow); handles counts, for each      *)
(*       callback, the functions subscribe returned for it that the caller *)
(*       has not called yet, and spent is the set of callbacks for which   *)
(*       it has called one                                                 *)
(*   store: the Svelte store createRouletteStore wraps the engine in, if   *)
(*       any: which definition of createRouletteStore made it, the number  *)
(*       of its subscribers and its value                                  *)
(***************************************************************************)
VARIABLES config, state, listeners, disposed, rng, last, hist, twin, caller,
          store

vars == <<config, state, listeners, disposed, rng, last, hist, twin, caller, store>>

\* no store wraps the engine
NoStore == [adapter |-> "none", subscribers |-> 0, value |-> <<>>]

\* the listener the store's start function gives engine.subscribe
StoreListener == "store"

\* the events at which that listener calls set(event.state)
StoreEvents == { "spin:tick", "spin:start", "spin:complete" }

\* the store once emit has called the listeners with the events emitted
StoreSet(current, emitted) ==
    LET got == { i \in 1..Len(emitted) : /\ StoreListener \in emitted[i].to
                                         /\ emitted[i].type \in StoreEvents }
    IN  IF got = {} THEN current
        ELSE [current EXCEPT !.value =
                 <<emitted[CHOOSE i \in got : \A j \in got : j <= i].state>>]

\* the caller holds no function returned by subscribe
NoHandles == [listener \in ListenerIds |-> 0]

Call(op, threw, plan, ret, emitted, planned, planRngStart, planRng) ==
    [op |-> op, arg |-> <<>>, threw |-> threw, plan |-> plan, ret |-> ret,
     emitted |-> emitted,
     pre |-> state, preDisposed |-> disposed, preListeners |-> listeners,
     planned |-> planned, planRngStart |-> planRngStart, planRng |-> planRng]

NotTracked == [tracking |-> FALSE, state |-> <<>>, plan |-> <<>>, rng |-> <<>>]

Init ==
    /\ config \in Configs
    /\ state = createInitialState(config)
    /\ listeners = {}
    /\ disposed = FALSE
    /\ rng = EngineRng(config)
    /\ last = [op |-> "create", arg |-> <<>>, threw |-> "none", plan |-> NoPlan,
               ret |-> <<>>, emitted |-> <<>>,
               pre |-> state, preDisposed |-> FALSE, preListeners |-> {},
               planned |-> FALSE, planRngStart |-> rng, planRng |-> rng]
    /\ hist = [spins |-> 0, completes |-> 0, driven |-> FALSE, plan |-> NoPlan,
               planSegments |-> 0, planFree |-> FALSE,
               overwrites |-> 0, disposedState |-> <<>>, controlled |-> <<>>,
               skipped |-> FALSE,
               earlier |-> <<>>]
    /\ twin = IF IsDefined(config.seed) /\ ~IsDefined(config.rng)
              THEN [tracking |-> TRUE, state |-> <<createInitialState(config)>>,
                    plan |-> <<>>, rng |-> <<EngineRng(config)>>]
              ELSE NotTracked
    /\ caller = [config |-> config, shared |-> TRUE, handles |-> NoHandles,
                 spent |-> {}]
    /\ store = NoStore

\* the twin after the same spin call that ends as out
TwinAfter(out) ==
    [tracking |-> TRUE, state |-> <<out.state>>,
     plan |-> IF out.threw = "none" THEN <<out.plan>> ELSE twin.plan,
     rng |-> <<out.rng>>]

TwinSpin(options, env2) ==
    IF ~twin.tracking THEN twin
    ELSE TwinAfter(EngineSpin(twin.state[1], config, {}, FALSE, twin.rng[1],
                              options, env2))

\* the calls of rng() that planSpin makes at most: one for the rotations, one
\* for the selection without targetIndex, one for the jitter
DrawCount(options) ==
    IF disposed \/ Len(resolveSegments(state, config)) = 0 THEN 0
    ELSE IF IsDefined(options.targetAngle) THEN 1
    ELSE 1 + (IF IsDefined(options.targetIndex) THEN 0 ELSE 1)
           + (IF Coalesce(config.jitterFactor, DEFAULT_JITTER_FACTOR).n > 0
              THEN 1 ELSE 0)

\* what the twin's generator answers: its own draws
TwinEnvs(n) ==
    IF twin.tracking THEN Envs(PlanRng(config, twin.rng[1]).kind, n) ELSE {NoEnv}

\* controlled mode: beginSpin(start, planSpin(start, config, options)), when
\* planSpin does not throw
ControlledSpin(start, options, env) ==
    LET res == planSpin(start, config, options, resolveRng(config), env)
    IN  IF res.error # "none" THEN <<>> ELSE <<beginSpin(start, res.plan)>>

\* the history after a spin call that ends as out; controlled is what
\* controlled mode computes from the same snapshot, options and draws
HistAfterSpin(options, out, controlled) ==
    IF out.threw = "none"
    THEN [hist EXCEPT !.spins = hist.spins + 1,
                      !.controlled = controlled,
                      !.earlier = IF hist.driven /\ state.phase = "spinning"
                                  THEN <<[plan |-> hist.plan,
                                          completes |-> hist.completes]>>
                                  ELSE <<>>,
                      !.completes = 0,
                      !.driven = TRUE,
                      !.plan = out.plan,
                      !.planSegments = Len(resolveSegments(state, config)),
                      !.planFree = ~IsDefined(options.targetAngle)]
    ELSE hist

\* spin(options) or stopAt(index).  The twin is given the same call; when
\* skips is set it is given the call only if the call does not throw, and
\* the history marks the call the twin has not seen.
SpinStep(op, options, skips) ==
    /\ hist.spins < MaxSpins
    /\ \E env \in Envs(PlanRng(config, rng).kind, DrawCount(options)),
          env2 \in TwinEnvs(DrawCount(options)) :
         \E out \in {EngineSpin(state, config, listeners, disposed, rng, options, env)},
            controlled \in {IF disposed THEN <<>>
                             ELSE ControlledSpin(state, options, env)} :
             /\ out.exact
             /\ state' = out.state
             /\ rng' = out.rng
             /\ last' = [Call(op, out.threw, out.plan, <<>>, out.emitted,
                              out.planned, out.planRngStart, out.planRng)
                            EXCEPT !.arg = <<options>>]
             /\ hist' = IF skips /\ out.threw # "none"
                        THEN [hist EXCEPT !.skipped = TRUE]
                        ELSE HistAfterSpin(options, out, controlled)
             /\ twin' = IF skips /\ out.threw # "none" THEN twin
                        ELSE TwinSpin(options, env2)
             /\ store' = StoreSet(store, out.emitted)
    /\ UNCHANGED <<config, listeners, disposed, caller>>

SpinCall(op, options) == SpinStep(op, options, FALSE)

Spin == \E options \in SpinOptionsSet : SpinCall("spin", options)

\* stopAt(index) is spin({ targetIndex: index })
StopAt ==
    \E index \in StopAtIndices :
        SpinCall("stopAt", [NoOptions EXCEPT !.targetIndex = <<index>>])

CountType(emitted, type) ==
    Cardinality({i \in 1..Len(emitted) : emitted[i].type = type})

\* the twin after the same tick
TwinTick(deltaMs) ==
    IF twin.tracking
    THEN [twin EXCEPT !.state =
             <<EngineTick(twin.state[1], config, {}, FALSE, deltaMs).state>>]
    ELSE twin

\* controlled mode: the fold of step over the snapshot beginSpin returned
ControlledStep(deltaMs) ==
    IF IsDefined(hist.controlled)
    THEN <<step(hist.controlled[1], config, deltaMs)>>
    ELSE <<>>

\* tick(deltaMs); arg is what the history keeps of the argument
TickCall(deltaMs, arg) ==
    /\ StepExact(state, config, deltaMs)
    /\ twin.tracking => StepExact(twin.state[1], config, deltaMs)
    /\ IsDefined(hist.controlled) => StepExact(hist.controlled[1], config, deltaMs)
    /\ \E out \in {EngineTick(state, config, listeners, disposed, deltaMs)} :
        /\ state' = out.state
        /\ last' = [Call("tick", "none", NoPlan, <<out.state>>,
                         out.emitted, FALSE, rng, rng)
                       EXCEPT !.arg = arg]
        /\ hist' = [hist EXCEPT !.completes =
                       IF hist.driven
                       THEN hist.completes + CountType(out.emitted, "spin:complete")
                       ELSE 0,
                                !.controlled = ControlledStep(deltaMs)]
        /\ twin' = TwinTick(deltaMs)
        /\ store' = StoreSet(store, out.emitted)
        /\ UNCHANGED <<config, listeners, disposed, rng, caller>>

Tick == \E deltaMs \in Deltas : TickCall(deltaMs, <<>>)

\* any call but spin and tick ends the comparison with the twin and the run
\* of ticks that drives the current spin
Interrupted ==
    [hist EXCEPT !.driven = FALSE, !.completes = 0, !.plan = NoPlan,
                 !.planSegments = 0, !.planFree = FALSE, !.controlled = <<>>,
                 !.earlier = <<>>]

Overwritten == [Interrupted EXCEPT !.overwrites = hist.overwrites + 1]

Reset ==
    \E out \in {EngineReset(state, config, listeners, disposed)} :
        /\ state' = out.state
        /\ last' = Call("reset", out.threw, NoPlan, <<>>, out.emitted,
                        FALSE, rng, rng)
        /\ hist' = Interrupted
        /\ twin' = NotTracked
        /\ UNCHANGED <<config, listeners, disposed, rng, caller, store>>

SetSegments ==
    /\ hist.overwrites < MaxOverwrites
    /\ \E segments \in SegmentLists :
         \E out \in {EngineSetSegments(state, config, disposed, segments)} :
             /\ config' = out.config
             /\ state' = out.state
             /\ last' = [Call("setSegments", "none", NoPlan, <<>>, <<>>,
                              FALSE, rng, rng)
                            EXCEPT !.arg = <<segments>>]
             /\ hist' = Overwritten
             /\ twin' = NotTracked
             /\ caller' = [caller EXCEPT !.shared = FALSE]
             /\ UNCHANGED <<listeners, disposed, rng, store>>

SetState ==
    /\ hist.overwrites < MaxOverwrites
    /\ \E next \in SetStateInputs(state) :
         /\ state' = EngineSetState(state, disposed, next)
         /\ last' = Call("setState", "none", NoPlan, <<>>, <<>>,
                         FALSE, rng, rng)
         /\ hist' = Overwritten
         /\ twin' = NotTracked
         /\ UNCHANGED <<config, listeners, disposed, rng, caller, store>>

\* subscribe(listener): listeners is a Set
Subscribe ==
    \E listener \in ListenerIds \ listeners :
        /\ listeners' = listeners \cup {listener}
        /\ last' = Call("subscribe", "none", NoPlan, <<>>, <<>>, FALSE, rng, rng)
        /\ UNCHANGED <<config, state, disposed, rng, hist, twin, caller, store>>

\* the function subscribe returned: listeners.delete(listener)
Unsubscribe ==
    \E listener \in listeners :
        /\ listeners' = listeners \ {listener}
        /\ last' = Call("unsubscribe", "none", NoPlan, <<>>, <<>>, FALSE, rng, rng)
        /\ UNCHANGED <<config, state, disposed, rng, hist, twin, caller, store>>

Dispose ==
    \E out \in {EngineDispose(state, listeners)} :
        /\ listeners' = out.listeners
        /\ disposed' = out.disposed
        /\ last' = Call("dispose", "none", NoPlan, <<>>, out.emitted,
                        FALSE, rng, rng)
        /\ hist' = [Interrupted EXCEPT !.disposedState =
                       IF disposed THEN hist.disposedState ELSE <<state>>]
        /\ twin' = NotTracked
        /\ UNCHANGED <<config, state, rng, caller, store>>

\* the caller, after creation, pushes a segment onto the segments array of the
\* config object it passed: the engine's config.segments is that array until
\* setSegments replaces it
CallerPushes ==
    /\ hist.overwrites < MaxOverwrites
    /\ caller' = [caller EXCEPT !.config.segments = Append(@, Segment("p", <<1>>))]
    /\ config' = IF caller.shared
                 THEN [config EXCEPT !.segments = caller'.config.segments]
                 ELSE config
    /\ last' = Call("caller: segments.push", "none", NoPlan, <<>>, <<>>,
                    FALSE, rng, rng)
    /\ hist' = Overwritten
    /\ twin' = NotTracked
    /\ UNCHANGED <<state, listeners, disposed, rng, store>>

\* the caller, after creation, assigns a field of the config object it passed:
\* the engine's config is another object
CallerAssigns ==
    /\ hist.overwrites < MaxOverwrites
    /\ caller' = [caller EXCEPT !.config.startAngle = <<Deg(45)>>]
    /\ last' = Call("caller: config.startAngle =", "none", NoPlan, <<>>, <<>>,
                    FALSE, rng, rng)
    /\ hist' = Overwritten
    /\ twin' = NotTracked
    /\ UNCHANGED <<config, state, listeners, disposed, rng, store>>

Next ==
    \/ Spin
    \/ StopAt
    \/ Tick
    \/ Reset
    \/ SetSegments
    \/ SetState
    \/ Subscribe
    \/ Unsubscribe
    \/ Dispose
    \/ CallerPushes
    \/ CallerAssigns

Spec == Init /\ [][Next]_vars

(***************************************************************************)
(* The engine on the configurations and spin options that validation.ts    *)
(* rejects: createRouletteEngine and spin do not call validateConfig or    *)
(* validateSpinOptions.                                                    *)
(***************************************************************************)
\* the configurations of the test suite's validation tests
InvalidConfigs ==
    { [BaseConfig EXCEPT !.segments = <<>>],
      [BaseConfig EXCEPT !.durationMs = <<-100>>],
      [BaseConfig EXCEPT !.minRotations = <<2>>, !.maxRotations = <<1>>],
      [BaseConfig EXCEPT !.jitterFactor = <<Frac(5, 1)>>],
      [BaseConfig EXCEPT !.jitterFactor = <<Frac(-1, 10)>>] }

\* spin options of the validation tests, and a lower bound above the
\* configuration's upper bound
InvalidSpinOptions ==
    { [NoOptions EXCEPT !.durationMs = <<-50>>],
      [NoOptions EXCEPT !.minRotations = <<2>>, !.maxRotations = <<1>>],
      [NoOptions EXCEPT !.minRotations = <<2>>] }

\* createRouletteEngine(initialConfig) for these configurations and for
\* the valid baseConfig
InitUnvalidated ==
    /\ config \in InvalidConfigs \cup {BaseConfig}
    /\ state = createInitialState(config)
    /\ listeners = {}
    /\ disposed = FALSE
    /\ rng = EngineRng(config)
    /\ last = [op |-> "create", arg |-> <<>>, threw |-> "none", plan |-> NoPlan,
               ret |-> <<>>, emitted |-> <<>>,
               pre |-> state, preDisposed |-> FALSE, preListeners |-> {},
               planned |-> FALSE, planRngStart |-> rng, planRng |-> rng]
    /\ hist = [spins |-> 0, completes |-> 0, driven |-> FALSE, plan |-> NoPlan,
               planSegments |-> 0, planFree |-> FALSE,
               overwrites |-> 0, disposedState |-> <<>>, controlled |-> <<>>,
               skipped |-> FALSE,
               earlier |-> <<>>]
    /\ twin = NotTracked
    /\ caller = [config |-> config, shared |-> TRUE, handles |-> NoHandles,
                 spent |-> {}]
    /\ store = NoStore

SpinUnvalidated ==
    \E options \in InvalidSpinOptions \cup {NoOptions} : SpinCall("spin", options)

NextUnvalidated ==
    \/ SpinUnvalidated
    \/ Tick
    \/ Reset
    \/ Subscribe

SpecUnvalidated == InitUnvalidated /\ [][NextUnvalidated]_vars

(***************************************************************************)
(* The engine and a caller that keeps the functions subscribe returns:     *)
(* it may subscribe a callback that is already registered, and call a      *)
(* function it has called before.                                          *)
(***************************************************************************)
MaxRegistrations == 2

InitListeners ==
    /\ config = BaseConfig
    /\ state = createInitialState(config)
    /\ listeners = {}
    /\ disposed = FALSE
    /\ rng = EngineRng(config)
    /\ last = [op |-> "create", arg |-> <<>>, threw |-> "none", plan |-> NoPlan,
               ret |-> <<>>, emitted |-> <<>>,
               pre |-> state, preDisposed |-> FALSE, preListeners |-> {},
               planned |-> FALSE, planRngStart |-> rng, planRng |-> rng]
    /\ hist = [spins |-> 0, completes |-> 0, driven |-> FALSE, plan |-> NoPlan,
               planSegments |-> 0, planFree |-> FALSE,
               overwrites |-> 0, disposedState |-> <<>>, controlled |-> <<>>,
               skipped |-> FALSE,
               earlier |-> <<>>]
    /\ twin = NotTracked
    /\ caller = [config |-> config, shared |-> TRUE, handles |-> NoHandles,
                 spent |-> {}]
    /\ store = NoStore

\* subscribe(listener): listeners.add(listener), and a new function returned
Register ==
    \E listener \in ListenerIds :
        /\ caller.handles[listener] < MaxRegistrations
        /\ listeners' = listeners \cup {listener}
        /\ caller' = [caller EXCEPT !.handles[listener] = @ + 1]
        /\ last' = [Call("subscribe", "none", NoPlan, <<>>, <<>>, FALSE, rng, rng)
                       EXCEPT !.arg = <<listener>>]
        /\ UNCHANGED <<config, state, disposed, rng, hist, twin, store>>

\* the first call of a function subscribe returned: listeners.delete(listener)
Unregister ==
    \E listener \in ListenerIds :
        /\ caller.handles[listener] > 0
        /\ listeners' = listeners \ {listener}
        /\ caller' = [caller EXCEPT !.handles[listener] = @ - 1,
                                    !.spent = @ \cup {listener}]
        /\ last' = [Call("unsubscribe", "none", NoPlan, <<>>, <<>>, FALSE, rng, rng)
                       EXCEPT !.arg = <<listener>>]
        /\ UNCHANGED <<config, state, disposed, rng, hist, twin, store>>

\* another call of a function already called: listeners.delete(listener)
UnregisterAgain ==
    \E listener \in caller.spent :
        /\ listeners' = listeners \ {listener}
        /\ last' = [Call("unsubscribe again", "none", NoPlan, <<>>, <<>>,
                         FALSE, rng, rng)
                       EXCEPT !.arg = <<listener>>]
        /\ UNCHANGED <<config, state, disposed, rng, hist, twin, caller, store>>

NextListeners ==
    \/ Register
    \/ Unregister
    \/ UnregisterAgain
    \/ StopAt
    \/ Tick

SpecListeners == InitListeners /\ [][NextListeners]_vars

(***************************************************************************)
(* A seeded engine and its twin, an identically seeded engine that is      *)
(* given the same calls but for the spins that fail.                       *)
(***************************************************************************)
InitSeeded == Init /\ twin.tracking

SpinSeeded == \E options \in SpinOptionsSet : SpinStep("spin", options, TRUE)

NextSeeded ==
    \/ SpinSeeded
    \/ Tick

SpecSeeded == InitSeeded /\ [][NextSeeded]_vars

(***************************************************************************)
(* One spin driven by ticks: the engine is given spin calls until one      *)
(* succeeds, and ticks; the caller keeps sending ticks of positive deltaMs *)
(* (the animation loop), which is the fairness condition.                  *)
(***************************************************************************)
\* spin, while no spin has succeeded
SpinFirst == hist.spins = 0 /\ Spin

TickForward == \E deltaMs \in {d \in Deltas : d > 0} : TickCall(deltaMs, <<deltaMs>>)

TickBack == \E deltaMs \in {d \in Deltas : d <= 0} : TickCall(deltaMs, <<deltaMs>>)

NextProgress ==
    \/ SpinFirst
    \/ TickForward
    \/ TickBack

SpecProgress == Init /\ [][NextProgress]_vars /\ WF_vars(TickForward)

(***************************************************************************)
(* createRouletteStore: the engine wrapped in a Svelte readable store.     *)
(* The store runs its start function when its first subscriber arrives     *)
(* and the function start returned when its last subscriber leaves.  The   *)
(* repository defines createRouletteStore twice: in svelte/index.ts, and   *)
(* again at the end of react/index.ts.                                     *)
(***************************************************************************)
StoreAdapters == { "svelte/index.ts", "react/index.ts" }

MaxSubscribers == 2

\* createRouletteStore(config): the engine, and readable(engine.getState(), start)
InitStore ==
    /\ config = BaseConfig
    /\ state = createInitialState(config)
    /\ listeners = {}
    /\ disposed = FALSE
    /\ rng = EngineRng(config)
    /\ last = [op |-> "create", arg |-> <<>>, threw |-> "none", plan |-> NoPlan,
               ret |-> <<>>, emitted |-> <<>>,
               pre |-> state, preDisposed |-> FALSE, preListeners |-> {},
               planned |-> FALSE, planRngStart |-> rng, planRng |-> rng]
    /\ hist = [spins |-> 0, completes |-> 0, driven |-> FALSE, plan |-> NoPlan,
               planSegments |-> 0, planFree |-> FALSE,
               overwrites |-> 0, disposedState |-> <<>>, controlled |-> <<>>,
               skipped |-> FALSE,
               earlier |-> <<>>]
    /\ twin = NotTracked
    /\ caller = [config |-> config, shared |-> TRUE, handles |-> NoHandles,
                 spent |-> {}]
    /\ store \in { [adapter |-> a, subscribers |-> 0, value |-> <<state>>]
                     : a \in StoreAdapters }

\* the function start returns: unsubscribe(), and in react/index.ts also
\* engine.dispose()
StoreStop(adapter, state0, listeners0, disposed0) ==
    IF adapter = "react/index.ts"
    THEN [listeners |-> EngineDispose(state0, listeners0 \ {StoreListener}).listeners,
          disposed |-> EngineDispose(state0, listeners0 \ {StoreListener}).disposed]
    ELSE [listeners |-> listeners0 \ {StoreListener}, disposed |-> disposed0]

\* store.subscribe(run): the first subscriber makes the store run start,
\* which subscribes the store's listener to the engine
StoreSubscribe ==
    /\ store.subscribers < MaxSubscribers
    /\ store' = [store EXCEPT !.subscribers = @ + 1]
    /\ listeners' = IF store.subscribers = 0
                    THEN listeners \cup {StoreListener} ELSE listeners
    /\ last' = Call("store.subscribe", "none", NoPlan, <<>>, <<>>, FALSE, rng, rng)
    /\ UNCHANGED <<config, state, disposed, rng, hist, twin, caller>>

\* the function store.subscribe returned: when the last subscriber leaves the
\* store runs the function start returned
StoreUnsubscribe ==
    /\ store.subscribers > 0
    /\ store' = [store EXCEPT !.subscribers = @ - 1]
    /\ \E out \in {IF store.subscribers = 1
                    THEN StoreStop(store.adapter, state, listeners, disposed)
                    ELSE [listeners |-> listeners, disposed |-> disposed]} :
          /\ listeners' = out.listeners
          /\ disposed' = out.disposed
          /\ hist' = IF out.disposed /\ ~disposed
                     THEN [Interrupted EXCEPT !.disposedState = <<state>>]
                     ELSE hist
    /\ last' = Call("store.unsubscribe", "none", NoPlan, <<>>, <<>>, FALSE, rng, rng)
    /\ UNCHANGED <<config, state, rng, twin, caller>>

\* store.spin, store.stopAt and store.tick are the engine's
NextStore ==
    \/ StoreSubscribe
    \/ StoreUnsubscribe
    \/ StopAt
    \/ Tick

SpecStore == InitStore /\ [][NextStore]_vars

(***************************************************************************)
(* The pure functions of state.ts, planSpin and selectWeightedIndex, on     *)
(* inputs drawn from bounded sets (controlled mode).                       *)
(***************************************************************************)
\* the last four configurations last 11 ms, so that the milliseconds fall on
\* the turning points of the bounce
PlanConfigs ==
    { [BaseConfig EXCEPT !.rotationDirection = <<d>>,
                         !.minRotations = <<r>>, !.maxRotations = <<r>>,
                         !.segments = segs, !.jitterFactor = <<j>>,
                         !.pointerAngle = pa]
        : d \in {1, -1}, r \in {0, 1}, segs \in {SegsABC, SegsFour},
          j \in {Frac(0, 1), Frac(1, 2), Frac(1, 1)}, pa \in {<<>>, <<Deg(90)>>} }
    \cup { [BaseConfig EXCEPT !.minRotations = lo, !.maxRotations = hi]
             : lo \in {<<>>, <<1>>}, hi \in {<<>>, <<3>>} }
    \cup { [BaseConfig EXCEPT !.easing = <<e>>, !.durationMs = <<11>>,
                              !.rotationDirection = <<d>>]
             : e \in {"linear", "easeOutBounce"}, d \in {1, -1} }

\* the angles of the snapshot planSpin is given
PlanAngles == { 0, Deg(90), Deg(400), -Deg(30) }

\* the phases of the snapshot the functions are given: a new snapshot, and a
\* snapshot marked spinning that has no targetAngle
PlanPhases == { "idle", "spinning" }

PlanOptions ==
    { NoOptions,
      [NoOptions EXCEPT !.targetIndex = <<Frac(0, 1)>>],
      [NoOptions EXCEPT !.targetIndex = <<Frac(2, 1)>>],
      [NoOptions EXCEPT !.targetIndex = <<Frac(3, 1)>>],
      [NoOptions EXCEPT !.targetIndex = <<Frac(-1, 1)>>],
      [NoOptions EXCEPT !.targetIndex = <<Frac(3, 2)>>],
      [NoOptions EXCEPT !.targetAngle = <<Deg(90)>>],
      [NoOptions EXCEPT !.targetAngle = <<Deg(450)>>],
      [NoOptions EXCEPT !.targetAngle = <<-Deg(45)>>],
      [NoOptions EXCEPT !.targetAngle = <<Deg(60)>>],
      [NoOptions EXCEPT !.targetIndex = <<Frac(1, 1)>>, !.targetAngle = <<Deg(90)>>],
      [NoOptions EXCEPT !.targetIndex = <<Frac(10, 1)>>, !.targetAngle = <<Deg(90)>>],
      [NoOptions EXCEPT !.targetIndex = <<Frac(2, 1)>>, !.durationMs = <<0>>],
      [NoOptions EXCEPT !.minRotations = <<0>>, !.maxRotations = <<2>>],
      [NoOptions EXCEPT !.minRotations = <<0>>],
      [NoOptions EXCEPT !.maxRotations = <<5>>] }

\* the weights of the segments selectWeightedIndex is given
WeightValues == { -5, 0, 1, 2 }

MaxWeighted == 3

WeightedLists ==
    UNION { [1..n -> { Segment("s", <<w>>) : w \in WeightValues }]
              : n \in 0..MaxWeighted }

InitPlan ==
    /\ config \in PlanConfigs
    /\ state \in { [createInitialState(config) EXCEPT !.angle = a, !.phase = p]
                      : a \in PlanAngles, p \in PlanPhases }
    /\ listeners = {}
    /\ disposed = FALSE
    /\ rng = EngineRng(config)
    /\ last = [op |-> "create", arg |-> <<>>, threw |-> "none", plan |-> NoPlan,
               ret |-> <<>>, emitted |-> <<>>,
               pre |-> state, preDisposed |-> FALSE, preListeners |-> {},
               planned |-> FALSE, planRngStart |-> rng, planRng |-> rng]
    /\ hist = [spins |-> 0, completes |-> 0, driven |-> FALSE, plan |-> NoPlan,
               planSegments |-> 0, planFree |-> FALSE,
               overwrites |-> 0, disposedState |-> <<>>, controlled |-> <<>>,
               skipped |-> FALSE,
               earlier |-> <<>>]
    /\ twin = NotTracked
    /\ caller = [config |-> config, shared |-> TRUE, handles |-> NoHandles,
                 spent |-> {}]
    /\ store = NoStore

\* the functions are pure: a behaviour applies one of them once to the inputs
\* Init drew
NotApplied == last.op = "create"

\* planSpin(state, config, options); the history keeps the options and the
\* local baseAngle as normalized
PlanSpinCall ==
    \E options \in PlanOptions :
        /\ NotApplied
        /\ \E env \in Envs(PlanRng(config, rng).kind, DrawCount(options)) :
            \E res \in {planSpin(state, config, options, rng, env)} :
                /\ res.exact
                /\ last' = [Call("planSpin", res.error, res.plan, <<>>, <<>>,
                                 TRUE, res.rngStart, res.rng)
                               EXCEPT !.arg = <<options, res.baseAngle>>]
                /\ UNCHANGED <<config, state, listeners, disposed, rng, hist,
                               twin, caller, store>>

\* selectWeightedIndex(segments, rng), rng() returning the draw u
SelectCall ==
    \E segments \in WeightedLists, u \in RandomDraws :
        /\ NotApplied
        /\ last' = [Call("selectWeightedIndex", "none", NoPlan,
                         <<selectWeightedIndex(segments, u)>>, <<>>,
                         FALSE, rng, rng)
                       EXCEPT !.arg = <<segments, u>>]
        /\ UNCHANGED <<config, state, listeners, disposed, rng, hist, twin, caller, store>>

\* beginSpin(state, plan) with the plan planSpin has just returned
BeginCall ==
    /\ last.op = "planSpin"
    /\ last.threw = "none"
    /\ state' = beginSpin(state, last.plan)
    /\ last' = Call("beginSpin", "none", last.plan, <<>>, <<>>, FALSE, rng, rng)
    /\ UNCHANGED <<config, listeners, disposed, rng, hist, twin, caller, store>>

\* step(state, config, deltaMs) on the snapshot Init drew and on the spin begun
StepCall ==
    \E deltaMs \in Deltas :
        /\ last.op \in {"create", "beginSpin", "step"}
        /\ StepExact(state, config, deltaMs)
        /\ state' = step(state, config, deltaMs)
        /\ last' = [Call("step", "none", last.plan, <<>>, <<>>, FALSE, rng, rng)
                       EXCEPT !.arg = <<deltaMs>>]
        /\ UNCHANGED <<config, listeners, disposed, rng, hist, twin, caller, store>>

NextPlan ==
    \/ PlanSpinCall
    \/ SelectCall
    \/ BeginCall
    \/ StepCall

SpecPlan == InitPlan /\ [][NextPlan]_vars

(***************************************************************************)
(* Properties.                                                             *)
(***************************************************************************)
SpinCalled == last.op \in {"spin", "stopAt"}

SpinSucceeded == SpinCalled /\ last.threw = "none"

PlanningFailures ==
    { "targetIndex must be an integer.",
      "targetIndex is out of bounds for segments." }

\* C1: for a spin driven by tick calls, spin:complete is emitted exactly
\* once, by the tick call during which the phase changes from spinning to
\* stopped: a tick emits one spin:complete (with the new snapshot, to the
\* listeners subscribed at the call) when it makes that change and none
\* otherwise, no other call emits it, and the count of spin:complete since
\* the spin started is 0 while the phase is spinning and 1 once it is stopped.
C1_CompleteExactlyOnce ==
    /\ last.op = "tick" =>
          IF last.pre.phase = "spinning" /\ state.phase = "stopped"
          THEN /\ CountType(last.emitted, "spin:complete") = 1
               /\ last.emitted[Len(last.emitted)] =
                     [type |-> "spin:complete", state |-> state,
                      to |-> last.preListeners]
          ELSE CountType(last.emitted, "spin:complete") = 0
    /\ last.op # "tick" => CountType(last.emitted, "spin:complete") = 0
    /\ hist.driven /\ state.phase = "spinning" => hist.completes = 0
    /\ hist.driven /\ state.phase = "stopped" => hist.completes = 1

\* a tick after the spin has completed, with a listener subscribed: nothing
\* is emitted and the count stays 1
C1_Witness ==
    /\ hist.driven
    /\ last.op = "tick"
    /\ last.pre.phase = "stopped"
    /\ last.preListeners # {}
    /\ hist.completes = 1

\* C2: the second and later successful spins of a seeded engine do not
\* start their draws at the beginning of the seed's sequence: the generator
\* they draw from has already served the earlier spins.
C2_NeverRestarts ==
    (SpinSucceeded /\ last.planRng.kind = "seeded" /\ hist.spins >= 2)
        => /\ last.planRngStart.calls > 0
           /\ last.planRngStart.a # SeededClosure(config.seed[1])

\* C3: an engine created with a seed and its twin, created with the same
\* configuration and given the same spin and tick calls, hold identical
\* snapshots after every call and have returned identical plans.
C3_Determinism ==
    twin.tracking =>
        /\ twin.state = <<state>>
        /\ SpinSucceeded => twin.plan = <<last.plan>>

\* both engines have completed their second spin
C3_Witness ==
    /\ twin.tracking
    /\ hist.spins = 2
    /\ last.op = "tick"
    /\ last.pre.phase = "spinning"
    /\ state.phase = "stopped"

\* C4: when a spin planned without targetAngle, with jitterFactor 0 and the
\* default easing, and driven by ticks, has stopped, the angle is the plan's
\* targetAngle and, normalized, it is the pointer angle minus winningIndex
\* segment angles, normalized.
C4_LandsOnWinner ==
    ( /\ hist.driven
      /\ hist.planFree
      /\ state.phase = "stopped"
      /\ Coalesce(config.jitterFactor, DEFAULT_JITTER_FACTOR).n = 0
      /\ ~IsDefined(config.easing) )
    => /\ state.angle = hist.plan.targetAngle
       /\ normalizeAngle(state.angle) =
             normalizeAngle(Coalesce(config.pointerAngle, Deg(DEFAULT_POINTER_ANGLE))
                            - ((FullTurn \div hist.planSegments)
                               * hist.plan.winningIndex))

\* a counter-clockwise spin from a start angle that is not zero has stopped
\* on a winner other than the first
C4_Witness ==
    /\ hist.driven
    /\ hist.planFree
    /\ state.phase = "stopped"
    /\ last.op = "tick"
    /\ last.pre.phase = "spinning"
    /\ config.rotationDirection = <<-1>>
    /\ hist.plan.winningIndex > 0
    /\ Coalesce(config.jitterFactor, DEFAULT_JITTER_FACTOR).n = 0

\* C5: after a successful spin or stopAt the snapshot is spinning, with
\* elapsedMs 0 and the durationMs, targetAngle and winningIndex of the
\* returned plan, and the call emitted exactly one notification: spin:start
\* with that snapshot, to the listeners subscribed at the call.
C5_SpinStarts ==
    SpinSucceeded =>
        /\ state.phase = "spinning"
        /\ state.elapsedMs = 0
        /\ state.durationMs = last.plan.durationMs
        /\ state.targetAngle = <<last.plan.targetAngle>>
        /\ state.winningIndex = <<last.plan.winningIndex>>
        /\ last.emitted = <<[type |-> "spin:start", state |-> state,
                             to |-> last.preListeners]>>

\* a spin started in the middle of another, with a listener subscribed
C5_Witness ==
    /\ SpinSucceeded
    /\ last.pre.phase = "spinning"
    /\ last.pre.elapsedMs > 0
    /\ last.preListeners # {}

\* C6: a spin or stopAt that fails in planning because targetIndex is not
\* an integer or is out of bounds leaves the snapshot as it was before the
\* call and emits nothing.
C6_FailedPlanningKeepsSnapshot ==
    (SpinCalled /\ last.threw \in PlanningFailures)
        => /\ state = last.pre
           /\ last.emitted = <<>>

\* a spin with a non-integer targetIndex in the middle of a spin, with a
\* listener subscribed
C6_Witness ==
    /\ SpinCalled
    /\ last.threw = "targetIndex must be an integer."
    /\ last.pre.phase = "spinning"
    /\ last.preListeners # {}

\* C7: a tick on a disposed engine does not throw, returns the snapshot the
\* engine held when it was disposed, and emits nothing.
C7_TickAfterDispose ==
    (last.op = "tick" /\ last.preDisposed)
        => /\ last.threw = "none"
           /\ last.ret = hist.disposedState
           /\ last.emitted = <<>>

\* C8: spin, stopAt and reset on a disposed engine throw "Engine is
\* disposed.", leave the snapshot as it was and emit nothing.
C8_DisposedRaises ==
    (last.op \in {"spin", "stopAt", "reset"} /\ last.preDisposed)
        => /\ last.threw = "Engine is disposed."
           /\ state = last.pre
           /\ last.emitted = <<>>

\* reset on an engine disposed in the middle of a spin
C8_Witness ==
    /\ last.op = "reset"
    /\ last.preDisposed
    /\ last.pre.phase = "spinning"
    /\ last.pre.elapsedMs > 0

\* C9: once the engine is disposed, the snapshot getState returns is the
\* one it held when it was disposed.
C9_DisposeIsFinal ==
    disposed => <<state>> = hist.disposedState

\* C10: a dispose of a live engine emits a dispose notification to every
\* listener subscribed before the call.
C10_DisposeNotifies ==
    (last.op = "dispose" /\ ~last.preDisposed)
        => \A listener \in last.preListeners :
               \E i \in 1..Len(last.emitted) :
                   /\ last.emitted[i].type = "dispose"
                   /\ listener \in last.emitted[i].to

\* C11: a call on a disposed engine (tick, spin, stopAt, reset, setSegments,
\* setState, subscribe, a second dispose) invokes no listener, whether the
\* listener was subscribed before the dispose or after it.
C11_SilentAfterDispose ==
    last.preDisposed =>
        \A i \in 1..Len(last.emitted) : last.emitted[i].to = {}

\* a tick on an engine disposed in the middle of a spin, with a listener
\* subscribed after the dispose
C11_Witness ==
    /\ last.op = "tick"
    /\ last.preDisposed
    /\ last.pre.phase = "spinning"
    /\ last.preListeners # {}

\* C12: createRouletteEngine raises an error, and creates no engine, for a
\* configuration with an empty segment list, a negative durationMs,
\* minRotations > maxRotations or a jitterFactor outside [0, 1].
C12_CreationValidates ==
    ( /\ last.op = "create"
      /\ \/ Len(config.segments) = 0
         \/ IsDefined(config.durationMs) /\ config.durationMs[1] < 0
         \/ /\ IsDefined(config.minRotations)
            /\ IsDefined(config.maxRotations)
            /\ config.minRotations[1] > config.maxRotations[1]
         \/ /\ IsDefined(config.jitterFactor)
            /\ \/ config.jitterFactor[1].n < 0
               \/ config.jitterFactor[1].n > config.jitterFactor[1].d )
    => last.threw # "none"

\* C13: a spin on a live engine whose options.durationMs is negative, or
\* whose effective rotation bounds (the override, else the configuration's
\* value, else 3 and 6) are inverted, raises an error, leaves the snapshot
\* as it was and emits nothing.
C13_SpinValidates ==
    ( /\ SpinCalled
      /\ ~last.preDisposed
      /\ \/ IsDefined(last.arg[1].durationMs) /\ last.arg[1].durationMs[1] < 0
         \/ Coalesce(last.arg[1].minRotations, Coalesce(config.minRotations, 3))
               > Coalesce(last.arg[1].maxRotations, Coalesce(config.maxRotations, 6)) )
    => /\ last.threw # "none"
       /\ state = last.pre
       /\ last.emitted = <<>>

\* C14: setSegments([]) fails and leaves the snapshot as it was, and the
\* snapshot's option list is never empty.
C14_EmptyListRejected ==
    /\ (last.op = "setSegments" /\ last.arg = << <<>> >>)
          => /\ last.threw # "none"
             /\ state = last.pre
    /\ Len(state.segments) > 0

\* C15: the snapshot's option list is always a list installed through
\* createRouletteEngine or setSegments (or handed to setState): what the
\* caller does afterwards to the arrays and objects it passed never shows.
C15_PrivateCopy ==
    state.segments \in { c.segments : c \in Configs } \cup SegmentLists

\* C16: reset on a live engine succeeds and produces an idle snapshot at the
\* configured startAngle, with elapsedMs 0, no targetAngle, no winningIndex
\* and the engine's current option list; it emits exactly one spin:reset
\* with that snapshot to the listeners subscribed at the call; and a spin
\* called next succeeds.
C16_ResetReinitializes ==
    (last.op = "reset" /\ ~last.preDisposed)
    => /\ last.threw = "none"
       /\ state.phase = "idle"
       /\ state.angle = Coalesce(config.startAngle, 0)
       /\ state.spinStartAngle = Coalesce(config.startAngle, 0)
       /\ state.elapsedMs = 0
       /\ state.targetAngle = Undefined
       /\ state.winningIndex = Undefined
       /\ state.segments = config.segments
       /\ last.emitted = <<[type |-> "spin:reset", state |-> state,
                            to |-> last.preListeners]>>
       /\ \A env \in Envs(PlanRng(config, rng).kind, DrawCount(NoOptions)) :
              EngineSpin(state, config, listeners, disposed, rng,
                         NoOptions, env).threw = "none"

PlanCalled == last.op = "planSpin"

\* the number of options planSpin planned with
PlanCount == Len(resolveSegments(state, config))

\* C17: planSpin with a targetIndex fails when the index is not an integer
\* or is outside [0, optionCount), and otherwise returns a plan whose
\* winningIndex is that index.
C17_ForcedIndex ==
    (PlanCalled /\ IsDefined(last.arg[1].targetIndex))
    => IF \/ last.arg[1].targetIndex[1].d # 1
          \/ last.arg[1].targetIndex[1].n < 0
          \/ last.arg[1].targetIndex[1].n >= PlanCount
       THEN last.threw # "none"
       ELSE /\ last.threw = "none"
            /\ last.plan.winningIndex = last.arg[1].targetIndex[1].n

\* C18: a plan for a targetAngle ends, normalized, on that angle (no jitter,
\* and no draw but the one for the rotations); its winningIndex is a valid
\* index, congruent modulo the option count to a slot number k whose centre
\* k * slotWidth is nearest to normalizeAngle(pointerAngle - targetAngle);
\* for 4 options, pointerAngle 0 and targetAngle 90 it is 3.
C18_ForcedAngle ==
    (PlanCalled /\ last.threw = "none" /\ IsDefined(last.arg[1].targetAngle))
    => /\ (last.plan.targetAngle - last.arg[1].targetAngle[1]) % FullTurn = 0
       /\ last.planRng.calls = last.planRngStart.calls + 1
       /\ last.plan.winningIndex \in 0..(PlanCount - 1)
       /\ \E k \in 0..PlanCount :
              /\ k % PlanCount = last.plan.winningIndex
              /\ 2 * Abs(normalizeAngle(Coalesce(config.pointerAngle, 0)
                                        - last.arg[1].targetAngle[1])
                         - (k * (FullTurn \div PlanCount)))
                    <= FullTurn \div PlanCount
       /\ ( /\ PlanCount = 4
            /\ Coalesce(config.pointerAngle, 0) = 0
            /\ last.arg[1].targetAngle[1] = Deg(90) )
          => last.plan.winningIndex = 3

\* the scenario: 4 options, pointerAngle 0, targetAngle 90, with a
\* jitterFactor above 0 and a counter-clockwise wheel away from angle 0
C18_Witness ==
    /\ PlanCalled
    /\ last.threw = "none"
    /\ last.arg[1].targetAngle = <<Deg(90)>>
    /\ ~IsDefined(last.arg[1].targetIndex)
    /\ PlanCount = 4
    /\ ~IsDefined(config.pointerAngle)
    /\ config.jitterFactor = <<Frac(1, 2)>>
    /\ config.rotationDirection = <<-1>>
    /\ state.angle = Deg(400)
    /\ last.plan.winningIndex = 3

\* C19 as stated: with rotationDirection -1 the planned targetAngle is
\* strictly less than the current angle.
C19_ReverseDecreases ==
    (PlanCalled /\ last.threw = "none" /\ config.rotationDirection = <<-1>>)
    => last.plan.targetAngle < state.angle

\* C19, amended: with rotationDirection -1 the plan goes back by at least
\* its rotations full turns and by less than one turn more, so that the
\* targetAngle is never above the current angle and is strictly below it
\* when the plan makes a rotation; and with the default easing no step of
\* the spin raises the angle.
C19_ReverseNeverAdvances ==
    /\ (PlanCalled /\ last.threw = "none" /\ config.rotationDirection = <<-1>>)
       => /\ state.angle - last.plan.targetAngle >= last.plan.rotations * FullTurn
          /\ state.angle - last.plan.targetAngle
                < (last.plan.rotations + 1) * FullTurn
    /\ ( /\ last.op = "step"
         /\ config.rotationDirection = <<-1>>
         /\ ~IsDefined(config.easing) )
       => state.angle <= last.pre.angle

\* a step that lowers the angle of a counter-clockwise spin planned with no
\* rotation
C19_Witness ==
    /\ last.op = "step"
    /\ config.rotationDirection = <<-1>>
    /\ ~IsDefined(config.easing)
    /\ last.plan.rotations = 0
    /\ last.pre.phase = "spinning"
    /\ state.angle < last.pre.angle

\* C20: selectWeightedIndex on a list that has an option of positive weight
\* never returns an option whose weight is 0 or negative.
C20_NeverZeroWeight ==
    ( /\ last.op = "selectWeightedIndex"
      /\ \E i \in 1..Len(last.arg[1]) : last.arg[1][i].weight[1] > 0 )
    => last.arg[1][last.ret[1] + 1].weight[1] > 0

C22_ZeroDurationCompletes ==
    /\ ( /\ last.op = "tick"
         /\ ~last.preDisposed
         /\ last.pre.phase = "spinning"
         /\ last.pre.durationMs = 0 )
       => /\ state.phase = "stopped"
          /\ state.angle = last.pre.targetAngle[1]
          /\ CountType(last.emitted, "spin:complete") = 1
    /\ (~disposed /\ state.phase = "spinning" /\ state.durationMs = 0)
       => \A deltaMs \in Deltas :
              /\ step(state, config, deltaMs).phase = "stopped"
              /\ step(state, config, deltaMs).angle = state.targetAngle[1]
              /\ CountType(EngineTick(state, config, listeners, disposed,
                                      deltaMs).emitted, "spin:complete") = 1

\* the first tick of a spin of duration 0 with the default easing, on a wheel
\* that had to turn
C22_Witness ==
    /\ last.op = "tick"
    /\ ~last.preDisposed
    /\ last.pre.phase = "spinning"
    /\ last.pre.durationMs = 0
    /\ last.pre.elapsedMs = 0
    /\ ~IsDefined(config.easing)
    /\ state.phase = "stopped"
    /\ state.angle # last.pre.angle

\* C23 as stated: after a step with a negative deltaMs the elapsedMs, the
\* angle and the phase equal those before; a step with deltaMs 0 on a spin
\* of positive duration leaves elapsedMs unchanged and the phase spinning.
C23_NeverRewinds ==
    /\ (last.op = "step" /\ last.arg[1] < 0)
       => /\ state.elapsedMs = last.pre.elapsedMs
          /\ state.angle = last.pre.angle
          /\ state.phase = last.pre.phase
    /\ ( /\ last.op = "step"
         /\ last.arg[1] = 0
         /\ last.pre.phase = "spinning"
         /\ last.pre.durationMs > 0 )
       => /\ state.elapsedMs = last.pre.elapsedMs
          /\ state.phase = "spinning"

\* C23, amended: after a step with a negative deltaMs the elapsedMs equals
\* that before, and so do the angle and the phase unless the snapshot is
\* spinning with a durationMs of 0 (that step completes the spin); a step
\* with deltaMs 0 on a spin of positive duration leaves elapsedMs unchanged
\* and the phase spinning.
C23_NeverRewindsPositiveDuration ==
    /\ (last.op = "step" /\ last.arg[1] < 0)
       => /\ state.elapsedMs = last.pre.elapsedMs
          /\ (last.pre.phase = "spinning" => last.pre.durationMs > 0)
             => /\ state.angle = last.pre.angle
                /\ state.phase = last.pre.phase
    /\ ( /\ last.op = "step"
         /\ last.arg[1] = 0
         /\ last.pre.phase = "spinning"
         /\ last.pre.durationMs > 0 )
       => /\ state.elapsedMs = last.pre.elapsedMs
          /\ state.phase = "spinning"

\* a step with a negative deltaMs on a spin that is under way and has moved
C23_Witness ==
    /\ last.op = "step"
    /\ last.arg[1] < 0
    /\ last.pre.phase = "spinning"
    /\ last.pre.elapsedMs > 0
    /\ last.pre.angle # last.pre.spinStartAngle
    /\ state = last.pre

\* C24: step on a snapshot whose phase is not spinning, or whose targetAngle
\* is null, returns that very snapshot for every deltaMs; and a tick of an
\* engine that is idle or stopped leaves the snapshot unchanged and emits
\* nothing.
C24_StepNoOp ==
    /\ ( /\ last.op = "step"
         /\ (last.pre.phase # "spinning" \/ ~IsDefined(last.pre.targetAngle)) )
       => state = last.pre
    /\ state.phase \in {"idle", "stopped"}
       => \A deltaMs \in Deltas :
              EngineTick(state, config, ListenerIds, FALSE, deltaMs)
                 = [state |-> state, emitted |-> <<>>]

\* a step of positive deltaMs on a snapshot marked spinning that has no
\* targetAngle
C24_Witness ==
    /\ last.op = "step"
    /\ last.arg[1] > 0
    /\ last.pre.phase = "spinning"
    /\ ~IsDefined(last.pre.targetAngle)
    /\ state = last.pre

\* C25: controlled and imperative modes agree: after spin and any ticks the
\* engine's snapshot equals the fold of step, with the same deltas, over
\* beginSpin(start, planSpin(start, config, options)) for the snapshot the
\* spin started from, the same options and the same draws, at every step.
C25_ControlledMatchesImperative ==
    IsDefined(hist.controlled) => hist.controlled[1] = state

\* a tick that has moved the wheel of a second spin, planned with a draw for
\* the winner
C25_Witness ==
    /\ IsDefined(hist.controlled)
    /\ last.op = "tick"
    /\ hist.spins = 2
    /\ hist.planFree
    /\ state.phase = "spinning"
    /\ state.angle # state.spinStartAngle

\* the callbacks that have a registration whose function has not been called
LiveRegistrations == { listener \in ListenerIds : caller.handles[listener] > 0 }

\* C26: the function subscribe returned removes the registration of that
\* subscribe call and no other: a callback is registered exactly when it has
\* a registration whose function has not been called (also when another
\* registration of the same callback was removed), every notification goes
\* to those callbacks, and calling a function again changes nothing.
C26_ExactRegistration ==
    /\ listeners = LiveRegistrations
    /\ \A i \in 1..Len(last.emitted) : last.emitted[i].to = LiveRegistrations
    /\ last.op = "unsubscribe again" => listeners = last.preListeners

\* C27: when the last subscriber of the store leaves, the engine is not
\* disposed: it stays usable, a later store.spin succeeds and moves the
\* phase to spinning, and the store's listener is registered with the engine
\* again whenever the store has a subscriber.
C27_StoreKeepsEngine ==
    store.adapter # "none"
    => /\ ~disposed
       /\ SpinCalled => (last.threw = "none" /\ state.phase = "spinning")
       /\ (StoreListener \in listeners) <=> (store.subscribers > 0)

C29_RespinContinuous ==
    (SpinSucceeded /\ last.pre.phase = "spinning")
    => /\ state.angle = last.pre.angle
       /\ state.spinStartAngle = last.pre.angle
       /\ state.elapsedMs = 0
       /\ state.targetAngle = <<last.plan.targetAngle>>
       /\ LET turned == (IF config.rotationDirection = <<-1>> THEN -1 ELSE 1)
                           * (last.plan.targetAngle - last.pre.angle)
          IN  /\ turned >= last.plan.rotations * FullTurn
              /\ turned < (last.plan.rotations + 1) * FullTurn

\* a spin call on a wheel that a tick has moved off the angle its spin
\* started from
C29_Witness ==
    /\ SpinSucceeded
    /\ last.pre.phase = "spinning"
    /\ last.pre.elapsedMs > 0
    /\ last.pre.angle # last.pre.spinStartAngle
    /\ state.spinStartAngle = last.pre.angle
    /\ state.targetAngle # last.pre.targetAngle

\* C30: last write wins when a spin is made while one is under way: until
\* the next spin or reset the snapshot's winningIndex, targetAngle and
\* durationMs are those of the latest plan; the overwritten spin has
\* produced no spin:complete; and the latest spin produces exactly one
\* spin:complete, when it stops, carrying the latest plan's winningIndex.
C30_LastWriteWins ==
    hist.driven
    => /\ state.winningIndex = <<hist.plan.winningIndex>>
       /\ state.targetAngle = <<hist.plan.targetAngle>>
       /\ state.durationMs = hist.plan.durationMs
       /\ IsDefined(hist.earlier) => hist.earlier[1].completes = 0
       /\ hist.completes = (IF state.phase = "stopped" THEN 1 ELSE 0)
       /\ last.op = "tick"
          => \A i \in 1..Len(last.emitted) :
                 /\ last.emitted[i].state.winningIndex = <<hist.plan.winningIndex>>
                 /\ last.emitted[i].type = "spin:complete"
                    => (last.pre.phase = "spinning" /\ state.phase = "stopped")

\* the tick that stops a spin which overwrote a spin with another winner,
\* another target and another duration
C30_Witness ==
    /\ hist.driven
    /\ IsDefined(hist.earlier)
    /\ hist.earlier[1].plan.winningIndex # hist.plan.winningIndex
    /\ hist.earlier[1].plan.targetAngle # hist.plan.targetAngle
    /\ hist.earlier[1].plan.durationMs # hist.plan.durationMs
    /\ last.op = "tick"
    /\ state.phase = "stopped"
    /\ CountType(last.emitted, "spin:complete") = 1

\* C31: under the engine's operations other than setState the phase changes
\* only along these edges: a spin that succeeds moves any phase to spinning
\* (one that fails leaves it), a tick moves spinning to stopped or leaves the
\* phase, a reset moves any phase to idle, and setSegments, subscribe,
\* unsubscribe and dispose leave the phase; so stopped is entered only by a
\* tick from spinning.
C31_PhaseEdges ==
    /\ SpinCalled
       => state.phase = (IF last.threw = "none" THEN "spinning" ELSE last.pre.phase)
    /\ last.op = "tick"
       => \/ state.phase = last.pre.phase
          \/ (last.pre.phase = "spinning" /\ state.phase = "stopped")
    /\ last.op = "reset"
       => state.phase = (IF last.threw = "none" THEN "idle" ELSE last.pre.phase)
    /\ last.op \in {"setSegments", "subscribe", "unsubscribe", "dispose"}
       => state.phase = last.pre.phase
    /\ (last.op # "setState" /\ state.phase = "stopped" /\ last.pre.phase # "stopped")
       => (last.op = "tick" /\ last.pre.phase = "spinning")

\* setSegments during a spin leaves the phase spinning
C31_Witness ==
    /\ last.op = "setSegments"
    /\ last.pre.phase = "spinning"
    /\ last.pre.elapsedMs > 0
    /\ state.phase = "spinning"

\* C32: within one spin (from a successful spin until a call other than
\* tick) elapsedMs never decreases from tick to tick and satisfies
\* 0 <= elapsedMs <= durationMs whatever the deltas; and after a tick of a
\* spinning engine the phase is stopped exactly when elapsedMs has reached
\* durationMs.
C32_ElapsedBounded ==
    /\ hist.driven
       => /\ 0 <= state.elapsedMs
          /\ state.elapsedMs <= state.durationMs
          /\ last.op = "tick" => state.elapsedMs >= last.pre.elapsedMs
    /\ (hist.driven /\ last.op = "tick" /\ last.pre.phase = "spinning")
       => (state.phase = "stopped" <=> state.elapsedMs = state.durationMs)

\* a tick whose deltaMs is larger than the duration of the spin, the
\* default duration
C32_Witness ==
    /\ hist.driven
    /\ last.op = "tick"
    /\ last.pre.phase = "spinning"
    /\ last.pre.elapsedMs = 0
    /\ last.pre.durationMs = DEFAULT_DURATION_MS
    /\ state.elapsedMs = state.durationMs
    /\ state.phase = "stopped"

\* C33: a spinning engine that keeps receiving ticks of positive deltaMs,
\* with no other spin, reset or setState, eventually reaches the phase
\* stopped; a tick stops it exactly when the elapsed time plus the tick's
\* non-negative delta reaches durationMs; and once stopped it stays stopped
\* under all further ticks.
C33_Terminates ==
    /\ (state.phase = "spinning" /\ ~disposed) ~> (state.phase = "stopped")
    /\ []( (last.op = "tick" /\ last.pre.phase = "spinning")
           => (state.phase = "stopped"
                 <=> last.pre.elapsedMs + Max(0, last.arg[1]) >= last.pre.durationMs) )
    /\ [][state.phase = "stopped" => state'.phase = "stopped"]_vars

\* the second tick of 1 ms stops a spin of 2 ms
C33_Witness ==
    /\ last.op = "tick"
    /\ last.arg = <<1>>
    /\ last.pre.phase = "spinning"
    /\ last.pre.elapsedMs = 1
    /\ last.pre.durationMs = 2
    /\ state.phase = "stopped"

\* the slot centre pointerAngle - slotWidth * winningIndex of the last plan
PlanCentre ==
    Coalesce(config.pointerAngle, Deg(DEFAULT_POINTER_ANGLE))
    - (resolveSegmentAngle(PlanCount) * last.plan.winningIndex)

\* C34: the plan's delta targetAngle - state.angle lies in
\* [rotations * 360, rotations * 360 + 360) for rotationDirection +1 and in
\* (-rotations * 360 - 360, -rotations * 360] for -1, from every current
\* angle; and normalizeAngle(targetAngle) is the normalized base alignment
\* angle: the forced targetAngle, else the winning slot's centre (plus the
\* jitter, when there is one).
C34_DeltaRange ==
    (PlanCalled /\ last.threw = "none")
    => /\ Coalesce(config.rotationDirection, DEFAULT_ROTATION_DIRECTION) = 1
          => /\ last.plan.targetAngle - state.angle >= last.plan.rotations * FullTurn
             /\ last.plan.targetAngle - state.angle
                   < (last.plan.rotations * FullTurn) + FullTurn
       /\ Coalesce(config.rotationDirection, DEFAULT_ROTATION_DIRECTION) = -1
          => /\ last.plan.targetAngle - state.angle
                   > (-(last.plan.rotations * FullTurn)) - FullTurn
             /\ last.plan.targetAngle - state.angle <= -(last.plan.rotations * FullTurn)
       /\ normalizeAngle(last.plan.targetAngle) = last.arg[2]
       /\ IsDefined(last.arg[1].targetAngle)
          => last.arg[2] = normalizeAngle(last.arg[1].targetAngle[1])
       /\ ( /\ ~IsDefined(last.arg[1].targetAngle)
            /\ Coalesce(config.jitterFactor, DEFAULT_JITTER_FACTOR).n = 0 )
          => last.arg[2] = normalizeAngle(PlanCentre)

\* a counter-clockwise plan of one rotation from the angle -30 that goes
\* back by more than the full turn, and a base angle above the current one
C34_Witness ==
    /\ PlanCalled
    /\ last.threw = "none"
    /\ config.rotationDirection = <<-1>>
    /\ last.plan.rotations = 1
    /\ state.angle = -Deg(30)
    /\ last.plan.targetAngle - state.angle < -FullTurn
    /\ last.arg[2] < normalizeAngle(state.angle)

\* C35: when a spin supplies both a targetIndex and a targetAngle, the
\* targetIndex is validated (a non-integer or out-of-range index fails) and
\* the plan's winningIndex is the targetIndex; the winner is derived from
\* the targetAngle only when no targetIndex is given.
C35_IndexBeforeAngle ==
    /\ ( /\ PlanCalled
         /\ IsDefined(last.arg[1].targetIndex)
         /\ IsDefined(last.arg[1].targetAngle) )
       => IF /\ last.arg[1].targetIndex[1].d = 1
             /\ last.arg[1].targetIndex[1].n \in 0..(PlanCount - 1)
          THEN /\ last.threw = "none"
               /\ last.plan.winningIndex = last.arg[1].targetIndex[1].n
          ELSE last.threw # "none"
    /\ ( /\ PlanCalled
         /\ ~IsDefined(last.arg[1].targetIndex)
         /\ IsDefined(last.arg[1].targetAngle) )
       => /\ last.threw = "none"
          /\ last.plan.winningIndex
                = indexFromAlignmentAngle(
                      last.arg[1].targetAngle[1],
                      Coalesce(config.pointerAngle, Deg(DEFAULT_POINTER_ANGLE)),
                      resolveSegmentAngle(PlanCount), PlanCount)

\* how far back from the winning slot's centre the last plan rests, in
\* [0, 360)
PlanBehindCentre == normalizeAngle(PlanCentre - last.plan.targetAngle)

\* the distance between the plan's resting alignment and the slot's centre
PlanOffCentre == Min(PlanBehindCentre, FullTurn - PlanBehindCentre)

\* indexFromAlignmentAngle applied to the angle the last plan rests on
PlanRestingIndex ==
    indexFromAlignmentAngle(last.plan.targetAngle,
                            Coalesce(config.pointerAngle, Deg(DEFAULT_POINTER_ANGLE)),
                            resolveSegmentAngle(PlanCount), PlanCount)

\* C36 as stated: for every jitterFactor in [0, 1] and every draw, the
\* resting alignment of a plan without a targetAngle is at most
\* jitterFactor * slotWidth / 2 away from the winning slot's centre, and
\* indexFromAlignmentAngle of the resting angle is plan.winningIndex.
C36_JitterInsideSlot ==
    (PlanCalled /\ last.threw = "none" /\ ~IsDefined(last.arg[1].targetAngle))
    => /\ 2 * PlanOffCentre * Coalesce(config.jitterFactor, DEFAULT_JITTER_FACTOR).d
             <= Coalesce(config.jitterFactor, DEFAULT_JITTER_FACTOR).n
                   * resolveSegmentAngle(PlanCount)
       /\ PlanRestingIndex = last.plan.winningIndex

\* C36, amended: the resting alignment is at most jitterFactor * slotWidth / 2
\* away from the winning slot's centre; indexFromAlignmentAngle of the
\* resting angle is plan.winningIndex unless the plan rests exactly half a
\* slot behind the centre (jitterFactor 1, draw 0), on the line between two
\* slots, where it is the next index (winningIndex + 1) modulo the count.
C36_JitterInsideClosedSlot ==
    (PlanCalled /\ last.threw = "none" /\ ~IsDefined(last.arg[1].targetAngle))
    => /\ 2 * PlanOffCentre * Coalesce(config.jitterFactor, DEFAULT_JITTER_FACTOR).d
             <= Coalesce(config.jitterFactor, DEFAULT_JITTER_FACTOR).n
                   * resolveSegmentAngle(PlanCount)
       /\ PlanRestingIndex
             = IF 2 * PlanBehindCentre = resolveSegmentAngle(PlanCount)
               THEN (last.plan.winningIndex + 1) % PlanCount
               ELSE last.plan.winningIndex

\* a plan with jitterFactor 1 that rests on the line between the winning
\* slot and the next
C36_Witness ==
    /\ PlanCalled
    /\ last.threw = "none"
    /\ ~IsDefined(last.arg[1].targetAngle)
    /\ config.jitterFactor = <<Frac(1, 1)>>
    /\ 2 * PlanBehindCentre = resolveSegmentAngle(PlanCount)
    /\ PlanRestingIndex # last.plan.winningIndex

\* options.minRotations ?? config.minRotations ?? DEFAULT_MIN_ROTATIONS of
\* the last planSpin
PlanMinRotations ==
    Coalesce(last.arg[1].minRotations,
             Coalesce(config.minRotations, DEFAULT_MIN_ROTATIONS))

\* options.maxRotations ?? config.maxRotations ?? DEFAULT_MAX_ROTATIONS of
\* the last planSpin
PlanMaxRotations ==
    Coalesce(last.arg[1].maxRotations,
             Coalesce(config.maxRotations, DEFAULT_MAX_ROTATIONS))

\* C37: plan.rotations is an integer between the effective minimum and the
\* effective maximum, each the per-spin override, else the config value,
\* else the default 3 (min) / 6 (max), for every draw; when the two are
\* equal it is that value.
C37_RotationsInBounds ==
    (PlanCalled /\ last.threw = "none")
    => /\ last.plan.rotations \in Int
       /\ PlanMinRotations <= last.plan.rotations
       /\ last.plan.rotations <= PlanMaxRotations
       /\ PlanMinRotations = PlanMaxRotations
          => last.plan.rotations = PlanMinRotations
       /\ (~IsDefined(last.arg[1].minRotations) /\ ~IsDefined(config.minRotations))
          => last.plan.rotations >= 3
       /\ (~IsDefined(last.arg[1].maxRotations) /\ ~IsDefined(config.maxRotations))
          => last.plan.rotations <= 6

\* a draw of 0.5 under the default minimum 3 and the per-spin maximum 5,
\* with a config maximum of 3: the plan makes 4 rotations
C37_Witness ==
    /\ PlanCalled
    /\ last.threw = "none"
    /\ ~IsDefined(config.minRotations)
    /\ config.maxRotations = <<3>>
    /\ last.arg[1].maxRotations = <<5>>
    /\ last.plan.rotations = 4

\* the last call was a step of a spin under way
StepOfSpin ==
    /\ last.op = "step"
    /\ last.pre.phase = "spinning"
    /\ IsDefined(last.pre.targetAngle)

\* C38 as stated: from one step of a spin to the next the angle never
\* decreases for rotationDirection +1 and never increases for -1, for every
\* easing function the configuration accepts, and it stays between
\* spinStartAngle and targetAngle inclusive.
C38_AngleMonotonic ==
    StepOfSpin
    => /\ Coalesce(config.rotationDirection, DEFAULT_ROTATION_DIRECTION) = 1
          => state.angle >= last.pre.angle
       /\ Coalesce(config.rotationDirection, DEFAULT_ROTATION_DIRECTION) = -1
          => state.angle <= last.pre.angle
       /\ state.angle >= Min(state.spinStartAngle, state.targetAngle[1])
       /\ state.angle <= Max(state.spinStartAngle, state.targetAngle[1])

\* C38, amended: the angle stays between spinStartAngle and targetAngle
\* inclusive for every easing function; it never decreases (+1) or
\* increases (-1) from one step of a spin to the next when the easing is the
\* default cubic ease-out or another non-decreasing function (the identity);
\* under an easing that is not monotonic the angle can go back.
C38_AngleMonotonicEasing ==
    StepOfSpin
    => /\ ( /\ Coalesce(config.rotationDirection, DEFAULT_ROTATION_DIRECTION) = 1
            /\ config.easing \in {<<>>, <<"linear">>} )
          => state.angle >= last.pre.angle
       /\ ( /\ Coalesce(config.rotationDirection, DEFAULT_ROTATION_DIRECTION) = -1
            /\ config.easing \in {<<>>, <<"linear">>} )
          => state.angle <= last.pre.angle
       /\ state.angle >= Min(state.spinStartAngle, state.targetAngle[1])
       /\ state.angle <= Max(state.spinStartAngle, state.targetAngle[1])

\* the fifth millisecond of a clockwise spin under the bounce: the wheel,
\* which stood on the targetAngle, goes back
C38_Witness ==
    /\ StepOfSpin
    /\ config.easing = <<"easeOutBounce">>
    /\ config.rotationDirection = <<1>>
    /\ last.pre.angle = state.targetAngle[1]
    /\ state.elapsedMs = 5
    /\ state.angle < last.pre.angle
    /\ state.angle > state.spinStartAngle

\* C39: after any sequence of spin, stopAt, tick, reset and setSegments, a
\* winningIndex that is not null is an index of the snapshot's current
\* segments: 0 <= winningIndex < segments.length (the snapshots setState is
\* given keep the winningIndex and the segments of the engine's).
C39_WinnerExists ==
    IsDefined(state.winningIndex)
    => /\ state.winningIndex[1] >= 0
       /\ state.winningIndex[1] < Len(state.segments)

\* C40: a spin that fails does not advance the engine's generator: the
\* engine and a twin with the same seed that is never given the failing
\* calls hold the same generator and the same snapshot after every call, and
\* every later spin returns the same plan on both.
C40_FailedSpinLeavesNoTrace ==
    /\ twin.rng = <<rng>>
    /\ twin.state = <<state>>
    /\ SpinSucceeded => twin.plan = <<last.plan>>
    /\ (SpinCalled /\ last.threw # "none") => state = last.pre

\* the engine has made its second spin after a spin that failed, and the
\* twin, which has not seen the failure, has returned the same plan
C40_Witness ==
    /\ hist.skipped
    /\ SpinSucceeded
    /\ hist.spins = 2
    /\ rng.kind = "seeded"
    /\ twin.plan = <<last.plan>>

=============================================================================
